---- MODULE Spec2Model ----
(***************************************************************************)
(* YamUI runtime of kc-touch: the navigation request queue                 *)
(* (yui_navigation_queue.c), the navigation and modal stacks               *)
(* (lvgl_yaml_gui.c) and the reactive state store (yamui_state.c).         *)
(*                                                                         *)
(* The UI thread is modelled as a call stack of frames: one step moves the *)
(* frame on top.  Two programs drive the queue: the unit test program      *)
(* (test_navigation_stack.c, executor nav_queue_executor) and the firmware *)
(* (lvgl_yaml_gui.c, executor yui_navigation_execute_request).             *)
(* Allocation failure (malloc/realloc returning NULL) is not modelled,     *)
(* except as the failure of yui_render_widget_list, the one way a screen   *)
(* render reports an error to yui_nav_queue_end_render.                    *)
(***************************************************************************)
EXTENDS Integers, Sequences, FiniteSets, TLC

VARIABLES
    program,        \* "test" or "app": which binary is running
    s_executor,     \* yui_navigation_queue.c s_executor: "none", "test", "nav"
    s_queue,        \* s_queue[0 .. s_queue_count-1]
    s_rendering,    \* s_rendering
    s_loaded_schema,\* lvgl_yaml_gui.c s_loaded_schema != NULL
    schema,         \* on_load action list of every screen of the document
    s_nav_stack,    \* s_nav_stack[0 .. s_nav_count-1], screen names
    s_modal_stack,  \* s_modal_stack[0 .. s_modal_count-1], overlays
    screen_shown,   \* screen whose widgets are on the display, or "none"
    stack,          \* call stack of the UI thread, top is the last frame
    ret,            \* value returned by the call that returned last
    s_call_count,   \* executor invocations so far (s_call_count in the test program)
    last_call,      \* the last executor invocation (s_calls[s_call_count - 1])
    enq,            \* requests accepted into the queue since it was last empty
    deq,            \* requests popped by the drain since it was last empty
    modal_deleted,  \* overlays deleted by the last yui_modal_close_all, in order
    last,           \* name of the step taken last
    s_entries,      \* yamui_state.c s_entries[0 .. s_entry_count-1]
    s_watchers,     \* s_watchers[0 .. s_watch_count-1]
    s_watch_next_id,\* s_watch_next_id
    notified,       \* callbacks invoked by the last call of the store, in order
    state_call,     \* the last call of the store and its outcome
    prev_call,      \* the call before that, when both were a set of one key to one value
    registered,     \* the watchers registered, in the order of their registration
    objs,           \* LVGL objects created under the screen, by age
    scopes,         \* struct yui_component_scope instances, by age
    runtimes,       \* struct yui_widget_runtime at every address the allocator hands out
    deleting,       \* objects whose LV_EVENT_DELETE the running lv_obj_del still sends
    tstack,         \* per thread, the store calls in progress, innermost first
    s_lock,         \* yamui_state.c s_lock: 0 (NULL) or the mutex it designates
    mutexes,        \* the recursive mutexes created, each with holder and count
    dangling,       \* ghost: a callback was invoked with a freed runtime as user_ctx
    yaml            \* yaml_core.c: the call of yaml_core_parse_buffer in progress

navVars == <<program, s_executor, s_queue, s_rendering, s_loaded_schema, schema,
             s_nav_stack, s_modal_stack, screen_shown, stack, ret, s_call_count, last_call, enq,
             deq, modal_deleted, last>>
stateVars == <<s_entries, s_watchers, s_watch_next_id, notified, state_call, prev_call,
               registered>>
widgetVars == <<objs, scopes, runtimes, deleting>>
threadVars == <<tstack, s_lock, mutexes, dangling>>
vars == <<program, s_executor, s_queue, s_rendering, s_loaded_schema, schema,
          s_nav_stack, s_modal_stack, screen_shown, stack, ret, s_call_count, last_call, enq,
          deq, modal_deleted, last, s_entries, s_watchers, s_watch_next_id,
          notified, state_call, prev_call, registered, objs, scopes, runtimes, deleting,
          tstack, s_lock, mutexes, dangling, yaml>>

----
(* Bounds *)
MaxCalls == 4
MaxQueue == 3
MaxNav == 3
MaxModal == 2
MaxEntries == 2
MaxWatch == 2
MaxOrdered == 3
MaxObjs == 3
MaxScopes == 2
MaxWatchId == 3
MaxRefresh == 4
MaxClicks == 3

----
(* esp_err_t values and the NULL pointer *)
ESP_OK == "ESP_OK"
ESP_ERR_NO_MEM == "ESP_ERR_NO_MEM"
ESP_ERR_INVALID_STATE == "ESP_ERR_INVALID_STATE"
ESP_ERR_INVALID_ARG == "ESP_ERR_INVALID_ARG"
ESP_ERR_NOT_FOUND == "ESP_ERR_NOT_FOUND"
ESP_ERR_INVALID_SIZE == "ESP_ERR_INVALID_SIZE"
NULL == "NULL"

\* no buffer is being parsed
NoBuffer ==
    [data |-> <<>>, cursor |-> 1, stack |-> <<>>, nodes |-> <<>>, done |-> TRUE,
     err |-> ESP_OK, out_root |-> FALSE, round |-> 0, first |-> <<>>]

YUI_NAV_REQUEST_GOTO == "GOTO"
YUI_NAV_REQUEST_PUSH == "PUSH"
YUI_NAV_REQUEST_POP == "POP"
YUI_NAV_REQUEST_SHOW_MODAL == "SHOW_MODAL"
YUI_NAV_REQUEST_CLOSE_MODAL == "CLOSE_MODAL"

Request(type, arg) == [type |-> type, arg |-> arg]

----
(* The document: two screens, two components *)
Screens == {"home", "details"}
Components == {"dialog", "menu"}
DefaultScreen == "home"

ReqGotoHome == Request(YUI_NAV_REQUEST_GOTO, "home")
ReqGotoDetails == Request(YUI_NAV_REQUEST_GOTO, "details")
ReqPushDetails == Request(YUI_NAV_REQUEST_PUSH, "details")
ReqPushMissing == Request(YUI_NAV_REQUEST_PUSH, "missing")
ReqPop == Request(YUI_NAV_REQUEST_POP, NULL)
ReqModalDialog == Request(YUI_NAV_REQUEST_SHOW_MODAL, "dialog")
ReqModalMenu == Request(YUI_NAV_REQUEST_SHOW_MODAL, "menu")
ReqCloseModal == Request(YUI_NAV_REQUEST_CLOSE_MODAL, NULL)

\* on_load lists of the documents explored
Schemas ==
    { [home |-> <<>>, details |-> <<>>],
      [home |-> <<ReqPop, ReqPushDetails>>, details |-> <<>>],
      [home |-> <<>>, details |-> <<ReqPop, ReqGotoHome>>],
      [home |-> <<ReqModalDialog, ReqModalMenu>>, details |-> <<ReqGotoHome>>],
      [home |-> <<ReqPushDetails>>, details |-> <<ReqPop>>] }

\* action lists of the widgets' event handlers
Handlers ==
    { <<ReqGotoDetails>>, <<ReqGotoHome>>, <<ReqPushDetails>>, <<ReqPushMissing>>,
      <<ReqPop>>, <<ReqModalDialog>>, <<ReqModalMenu>>, <<ReqCloseModal>>,
      <<ReqPushDetails, ReqPop>>, <<ReqPop, ReqPushDetails>> }

\* requests the unit test program submits
TestRequests == { ReqPushDetails, ReqPop, ReqGotoHome }

----
(* Call frames *)
\* log: the results of the actions an action list has executed so far
\* freed: the memory of the list has been released while the frame iterates it
\* at: the navigation stack and the queue a render was entered with
Frame(fn, pc, type, arg, list, i, err) ==
    [fn |-> fn, pc |-> pc, type |-> type, arg |-> arg, list |-> list, i |-> i, err |-> err,
     log |-> <<>>, freed |-> FALSE, at |-> <<>>]

Top == stack[Len(stack)]
Below == SubSeq(stack, 1, Len(stack) - 1)
Running(fn, pc) == stack # <<>> /\ Top.fn = fn /\ Top.pc = pc
WithTop(f) == Append(Below, f)

SubmitFrame == Frame("submit", "return", NULL, NULL, <<>>, 0, ESP_OK)
ProcessFrame == Frame("process", "entry", NULL, NULL, <<>>, 0, ESP_OK)
RenderFrame == Frame("render_current", "entry", NULL, NULL, <<>>, 0, ESP_OK)
ActionListFrame(list) == Frame("action_list", "loop", NULL, NULL, list, 1, ESP_OK)
ExecutorFrame(executor, type, arg) ==
    Frame(IF executor = "test" THEN "nav_queue_executor" ELSE "execute_request",
          "entry", type, arg, <<>>, 0, ESP_OK)

----
(* yui_navigation_queue.c *)

\* a push that stores the request but does not count it
yui_nav_queue_push_uncounted(queue, type, arg) == queue

\* yui_nav_queue_push: append at the tail
yui_nav_queue_push(queue, type, arg) == Append(queue, Request(type, arg))

\* a pop that takes the newest request
yui_nav_queue_pop_newest(queue) ==
    [request |-> queue[Len(queue)], rest |-> SubSeq(queue, 1, Len(queue) - 1)]

\* yui_nav_queue_pop: take s_queue[0], shift the rest down
yui_nav_queue_pop(queue) == [request |-> Head(queue), rest |-> Tail(queue)]

\* a submit that defers only behind queued requests
queue_pending_count_only(rendering, count) == count > 0

\* yui_nav_queue_submit: bool queue_pending
queue_pending(rendering, count) == rendering \/ count > 0

\* a begin_render without the reentrancy guard
yui_nav_queue_begin_render_unguarded(rendering) == [err |-> ESP_OK, rendering |-> TRUE]

\* yui_nav_queue_begin_render
yui_nav_queue_begin_render(rendering) ==
    IF rendering THEN [err |-> ESP_ERR_INVALID_STATE, rendering |-> rendering]
    ELSE [err |-> ESP_OK, rendering |-> TRUE]

\* yui_nav_queue_process: leave the loop after the executor returned err
process_break(err, rendering) == err # ESP_OK \/ rendering

Call(type, arg, via) ==
    [type |-> type, arg |-> arg, via |-> via, rendering |-> s_rendering]
NoCall == [type |-> NULL, arg |-> NULL, via |-> "none", rendering |-> FALSE]
calls == <<s_call_count, last_call>>

UnchangedDocument == UNCHANGED <<program, schema>>
UnchangedStore == UNCHANGED <<stateVars, widgetVars, threadVars, yaml>>
UnchangedScreens == UNCHANGED <<s_loaded_schema, s_nav_stack, s_modal_stack, screen_shown, modal_deleted>>

\* yui_nav_queue_submit(type, arg), the caller continuing with call stack k
yui_nav_queue_submit(type, arg, k) ==
    /\ IF s_executor = "none"
       THEN /\ ret' = ESP_ERR_INVALID_STATE
            /\ stack' = k
            /\ last' = "submit_no_executor"
            /\ UNCHANGED <<s_queue, calls, enq, deq>>
       ELSE IF ~queue_pending(s_rendering, Len(s_queue))
       THEN /\ s_call_count < MaxCalls
            /\ s_call_count' = s_call_count + 1
            /\ last_call' = Call(type, arg, "submit")
            /\ stack' = k \o <<SubmitFrame, ExecutorFrame(s_executor, type, arg)>>
            /\ last' = "submit_execute"
            /\ UNCHANGED <<s_queue, enq, deq, ret>>
       ELSE /\ Len(s_queue) < MaxQueue
            /\ s_queue' = yui_nav_queue_push(s_queue, type, arg)
            /\ enq' = IF s_queue = <<>> THEN <<Request(type, arg)>>
                      ELSE Append(enq, Request(type, arg))
            /\ deq' = IF s_queue = <<>> THEN <<>> ELSE deq
            /\ ret' = ESP_OK
            /\ stack' = k
            /\ last' = "submit_defer"
            /\ UNCHANGED calls
    /\ UNCHANGED <<s_executor, s_rendering>>
    /\ UnchangedDocument /\ UnchangedScreens /\ UnchangedStore

\* return s_executor(type, arg, s_executor_ctx): the executor's result is submit's
SubmitReturn ==
    /\ Running("submit", "return")
    /\ stack' = Below
    /\ last' = "submit_return"
    /\ UNCHANGED <<s_executor, s_queue, s_rendering, ret, s_call_count, last_call, enq, deq>>
    /\ UnchangedDocument /\ UnchangedScreens /\ UnchangedStore

\* the while loop of yui_nav_queue_process, the frame on top being the drain
ProcessLoop ==
    IF s_queue = <<>>
    THEN /\ stack' = Below
         /\ last' = "process_done"
         /\ UNCHANGED <<s_queue, calls, deq>>
    ELSE LET popped == yui_nav_queue_pop(s_queue)
             request == popped.request
         IN /\ s_call_count < MaxCalls
            /\ s_queue' = popped.rest
            /\ deq' = Append(deq, request)
            /\ s_call_count' = s_call_count + 1
            /\ last_call' = Call(request.type, request.arg, "drain")
            /\ stack' = WithTop([Top EXCEPT !.pc = "after_executor"])
                           \o <<ExecutorFrame(s_executor, request.type, request.arg)>>
            /\ last' = "process_execute"

\* yui_nav_queue_process: entry
ProcessEntry ==
    /\ Running("process", "entry")
    /\ IF s_rendering \/ s_executor = "none"
       THEN /\ stack' = Below
            /\ last' = "process_skip"
            /\ UNCHANGED <<s_queue, calls, deq>>
       ELSE ProcessLoop
    /\ UNCHANGED <<s_executor, s_rendering, ret, enq>>
    /\ UnchangedDocument /\ UnchangedScreens /\ UnchangedStore

\* yui_nav_queue_process: after s_executor returned
ProcessAfterExecutor ==
    /\ Running("process", "after_executor")
    /\ IF process_break(ret, s_rendering)
       THEN /\ stack' = Below
            /\ last' = "process_break"
            /\ UNCHANGED <<s_queue, calls, deq>>
       ELSE ProcessLoop
    /\ UNCHANGED <<s_executor, s_rendering, ret, enq>>
    /\ UnchangedDocument /\ UnchangedScreens /\ UnchangedStore

\* a reset that empties the queue and leaves s_rendering as it is
yui_nav_queue_reset_queue_only ==
    /\ s_queue' = <<>>
    /\ UNCHANGED s_rendering
    /\ enq' = <<>>
    /\ deq' = <<>>

\* yui_nav_queue_reset
yui_nav_queue_reset ==
    /\ s_queue' = <<>>
    /\ s_rendering' = FALSE
    /\ enq' = <<>>
    /\ deq' = <<>>

\* an end_render that drains the queue whatever the render reported
yui_nav_queue_end_render_draining(success, k) ==
    IF ~s_rendering
    THEN /\ stack' = k
         /\ UNCHANGED s_rendering
    ELSE /\ s_rendering' = FALSE
         /\ stack' = Append(k, ProcessFrame)

\* yui_nav_queue_end_render(success), the caller continuing with call stack k
yui_nav_queue_end_render(success, k) ==
    IF ~s_rendering
    THEN /\ stack' = k
         /\ UNCHANGED s_rendering
    ELSE /\ s_rendering' = FALSE
         /\ stack' = IF success THEN Append(k, ProcessFrame) ELSE k

----
(* test_navigation_stack.c *)

\* nav_queue_executor: records the call (see calls) and returns ESP_OK
nav_queue_executor ==
    /\ Running("nav_queue_executor", "entry")
    /\ stack' = Below
    /\ ret' = ESP_OK
    /\ last' = "executor_return"
    /\ UNCHANGED <<s_executor, s_queue, s_rendering, calls, enq, deq>>
    /\ UnchangedDocument /\ UnchangedScreens /\ UnchangedStore

\* nav_queue_test_reset: forget the recorded calls, yui_nav_queue_init
nav_queue_test_reset ==
    /\ program = "test" /\ stack = <<>>
    /\ s_call_count' = 0
    /\ last_call' = NoCall
    /\ s_executor' = "test"
    /\ yui_nav_queue_reset
    /\ last' = "test_reset"
    /\ UNCHANGED <<stack, ret>>
    /\ UnchangedDocument /\ UnchangedScreens /\ UnchangedStore

\* every test case starts with nav_queue_test_reset and then calls the queue
TestSubmit(request) ==
    /\ program = "test" /\ stack = <<>> /\ s_executor = "test"
    /\ yui_nav_queue_submit(request.type, request.arg, <<>>)

TestBeginRender ==
    /\ program = "test" /\ stack = <<>> /\ s_executor = "test"
    /\ LET r == yui_nav_queue_begin_render(s_rendering)
       IN /\ s_rendering' = r.rendering
          /\ ret' = r.err
    /\ last' = "begin_render"
    /\ UNCHANGED <<s_executor, s_queue, stack, calls, enq, deq>>
    /\ UnchangedDocument /\ UnchangedScreens /\ UnchangedStore

TestEndRender(success) ==
    /\ program = "test" /\ stack = <<>> /\ s_executor = "test"
    /\ yui_nav_queue_end_render(success, <<>>)
    /\ last' = IF success THEN "end_render_true" ELSE "end_render_false"
    /\ UNCHANGED <<s_executor, s_queue, ret, s_call_count, last_call, enq, deq>>
    /\ UnchangedDocument /\ UnchangedScreens /\ UnchangedStore

TestQueueReset ==
    /\ program = "test" /\ stack = <<>> /\ s_executor = "test"
    /\ yui_nav_queue_reset
    /\ last' = IF s_queue = <<>> THEN "queue_reset" ELSE "queue_reset_dropped"
    /\ UNCHANGED <<s_executor, stack, ret, calls>>
    /\ UnchangedDocument /\ UnchangedScreens /\ UnchangedStore

----
(* lvgl_yaml_gui.c: navigation and modal stacks *)

\* yui_schema_resolve_screen: the default screen for a NULL or empty name
yui_schema_resolve_screen(screen) ==
    LET target == IF screen = NULL \/ screen = "" THEN DefaultScreen ELSE screen
    IN IF target \in Screens THEN target ELSE NULL

\* yui_navigation_push: the frame put on top
yui_navigation_push(nav, screen) ==
    Append(nav, IF screen # NULL THEN screen ELSE DefaultScreen)

\* a goto that pushes a frame
yui_navigation_replace_top_pushing(nav, screen) == Append(nav, screen)

\* yui_navigation_replace_top
yui_navigation_replace_top(nav, screen) ==
    IF Len(nav) = 0 THEN yui_navigation_push(nav, screen)
    ELSE [nav EXCEPT ![Len(nav)] = screen]

\* a pop that refuses only on an empty stack
pop_refused_when_empty(count) == count < 1

\* yui_navigation_pop_internal: refuses to pop the last frame
pop_refused(count) == count <= 1

yui_navigation_pop_internal(nav) == SubSeq(nav, 1, Len(nav) - 1)

\* a close_all that deletes the top overlay only
yui_modal_close_all_top_only(modals, deleted) ==
    IF Len(modals) = 0 THEN [modals |-> modals, deleted |-> deleted]
    ELSE [modals |-> SubSeq(modals, 1, Len(modals) - 1),
          deleted |-> Append(deleted, modals[Len(modals)])]

\* yui_modal_close_all: overlays are deleted from the top of the stack down
RECURSIVE yui_modal_close_all(_, _)
yui_modal_close_all(modals, deleted) ==
    IF Len(modals) = 0 THEN [modals |-> modals, deleted |-> deleted]
    ELSE yui_modal_close_all(SubSeq(modals, 1, Len(modals) - 1),
                             Append(deleted, modals[Len(modals)]))

\* yui_modal_close_top
yui_modal_close_top(modals) == SubSeq(modals, 1, Len(modals) - 1)

UnchangedQueue == UNCHANGED <<s_executor, s_queue, s_rendering, calls, enq, deq>>

\* the executor returns err without touching anything
ExecutorFails(err) ==
    /\ stack' = Below
    /\ ret' = err
    /\ UNCHANGED <<s_nav_stack, s_modal_stack>>

\* yui_navigation_execute_request and the operation it dispatches to, up to
\* the call of yui_navigation_render_current that ends each of them
yui_navigation_execute_request ==
    /\ Running("execute_request", "entry")
    /\ LET type == Top.type
           arg == Top.arg
       IN CASE type = YUI_NAV_REQUEST_GOTO ->
                 IF Len(s_nav_stack) = 0 /\ ~s_loaded_schema
                 THEN ExecutorFails(ESP_ERR_INVALID_STATE) /\ last' = "goto_failed"
                 ELSE /\ s_nav_stack' = yui_navigation_replace_top(s_nav_stack, arg)
                      /\ stack' = WithTop(RenderFrame)
                      /\ last' = "goto"
                      /\ UNCHANGED <<ret, s_modal_stack>>
            [] type = YUI_NAV_REQUEST_PUSH ->
                 IF ~s_loaded_schema
                 THEN ExecutorFails(ESP_ERR_INVALID_STATE) /\ last' = "push_failed"
                 ELSE /\ Len(s_nav_stack) < MaxNav
                      /\ s_nav_stack' = yui_navigation_push(s_nav_stack, arg)
                      /\ stack' = WithTop(RenderFrame)
                      /\ last' = "push"
                      /\ UNCHANGED <<ret, s_modal_stack>>
            [] type = YUI_NAV_REQUEST_POP ->
                 IF pop_refused(Len(s_nav_stack))
                 THEN ExecutorFails(ESP_ERR_INVALID_STATE) /\ last' = "pop_refused"
                 ELSE /\ s_nav_stack' = yui_navigation_pop_internal(s_nav_stack)
                      /\ stack' = WithTop(RenderFrame)
                      /\ last' = "pop"
                      /\ UNCHANGED <<ret, s_modal_stack>>
            [] type = YUI_NAV_REQUEST_SHOW_MODAL ->
                 IF ~s_loaded_schema
                 THEN ExecutorFails(ESP_ERR_INVALID_STATE) /\ last' = "modal_failed"
                 ELSE IF arg = NULL \/ arg = ""
                 THEN ExecutorFails(ESP_ERR_INVALID_ARG) /\ last' = "modal_failed"
                 ELSE IF arg \notin Components
                 THEN ExecutorFails(ESP_ERR_NOT_FOUND) /\ last' = "modal_failed"
                 ELSE /\ Len(s_modal_stack) < MaxModal
                      /\ s_modal_stack' = Append(s_modal_stack, arg)
                      /\ stack' = Below
                      /\ ret' = ESP_OK
                      /\ last' = "modal_shown"
                      /\ UNCHANGED s_nav_stack
            [] type = YUI_NAV_REQUEST_CLOSE_MODAL ->
                 IF Len(s_modal_stack) = 0
                 THEN ExecutorFails(ESP_ERR_INVALID_STATE) /\ last' = "close_modal_failed"
                 ELSE /\ s_modal_stack' = yui_modal_close_top(s_modal_stack)
                      /\ stack' = Below
                      /\ ret' = ESP_OK
                      /\ last' = "modal_closed"
                      /\ UNCHANGED s_nav_stack
            [] OTHER -> ExecutorFails(ESP_ERR_INVALID_ARG) /\ last' = "bad_request"
    /\ UnchangedQueue /\ UnchangedDocument /\ UnchangedStore
    /\ UNCHANGED <<s_loaded_schema, screen_shown, modal_deleted>>

\* yui_navigation_render_current up to yui_nav_queue_begin_render
RenderCurrentEntry ==
    /\ Running("render_current", "entry")
    /\ LET screen == IF Len(s_nav_stack) = 0 THEN NULL
                     ELSE yui_schema_resolve_screen(s_nav_stack[Len(s_nav_stack)])
           begin == yui_nav_queue_begin_render(s_rendering)
       IN IF Len(s_nav_stack) = 0
          THEN /\ stack' = Below /\ ret' = ESP_ERR_INVALID_STATE
               /\ last' = "render_no_frame" /\ UNCHANGED s_rendering
          ELSE IF screen = NULL
          THEN /\ stack' = Below /\ ret' = ESP_ERR_NOT_FOUND
               /\ last' = "render_not_found" /\ UNCHANGED s_rendering
          ELSE IF begin.err # ESP_OK
          THEN /\ stack' = Below /\ ret' = begin.err
               /\ last' = "render_refused" /\ UNCHANGED s_rendering
          ELSE /\ s_rendering' = begin.rendering
               /\ stack' = WithTop([Top EXCEPT !.pc = "render_screen", !.arg = screen,
                                               !.at = <<s_nav_stack, s_queue>>])
               /\ last' = "begin_render"
               /\ UNCHANGED ret
    /\ UNCHANGED <<s_executor, s_queue, calls, enq, deq>>
    /\ UnchangedDocument /\ UnchangedScreens /\ UnchangedStore

\* yui_widget_runtime_destroy on LV_EVENT_DELETE of every widget of the screen:
\* free(runtime->events.lists) and free(runtime).  The handler of a widget
\* that is still running is the bottom frame of the call stack; what its
\* loop reads from the released memory afterwards is the list as it was
\* (intact) or a count that ends the loop.
yui_widget_runtime_destroy(frames, intact) ==
    IF frames # <<>> /\ frames[1].fn = "action_list"
    THEN [frames EXCEPT ![1] =
            [@ EXCEPT !.freed = TRUE,
                      !.list = IF intact THEN @ ELSE SubSeq(@, 1, frames[1].i)]]
    ELSE frames

\* yui_render_screen: yui_modal_close_all, lv_obj_clean
RenderScreenTeardown ==
    /\ Running("render_current", "render_screen")
    /\ LET closed == yui_modal_close_all(s_modal_stack, <<>>)
       IN /\ s_modal_stack' = closed.modals
          /\ modal_deleted' = closed.deleted
    /\ screen_shown' = "none"
    /\ \E intact \in BOOLEAN :
          stack' = yui_widget_runtime_destroy(WithTop([Top EXCEPT !.pc = "build"]), intact)
    /\ last' = "teardown"
    /\ UNCHANGED <<ret, s_loaded_schema, s_nav_stack>>
    /\ UnchangedQueue /\ UnchangedDocument /\ UnchangedStore

\* yui_render_screen: yui_render_widget_list, which fails when a component
\* scope cannot be allocated, then the on_load action list
RenderScreenBuild(ok) ==
    /\ Running("render_current", "build")
    /\ LET on_load == schema[Top.arg]
       IN IF ~ok
          THEN /\ stack' = WithTop([Top EXCEPT !.pc = "end_render", !.err = ESP_ERR_NO_MEM])
               /\ last' = "build_failed"
               /\ UNCHANGED screen_shown
          ELSE /\ screen_shown' = Top.arg
               /\ stack' = WithTop([Top EXCEPT !.pc = "end_render", !.err = ESP_OK])
                            \o (IF Len(on_load) > 0 THEN <<ActionListFrame(on_load)>> ELSE <<>>)
               /\ last' = "build"
    /\ UNCHANGED <<ret, s_loaded_schema, s_nav_stack, s_modal_stack, modal_deleted>>
    /\ UnchangedQueue /\ UnchangedDocument /\ UnchangedStore

\* yui_navigation_render_current: yui_nav_queue_end_render(err == ESP_OK)
RenderCurrentEndRender ==
    /\ Running("render_current", "end_render")
    /\ yui_nav_queue_end_render(Top.err = ESP_OK, WithTop([Top EXCEPT !.pc = "return"]))
    /\ last' = IF Top.err = ESP_OK THEN "end_render_true" ELSE "end_render_false"
    /\ UNCHANGED <<s_executor, s_queue, ret, s_call_count, last_call, enq, deq>>
    /\ UnchangedDocument /\ UnchangedScreens /\ UnchangedStore

\* yui_navigation_render_current: return err
RenderCurrentReturn ==
    /\ Running("render_current", "return")
    /\ stack' = Below
    /\ ret' = Top.err
    /\ last' = "render_return"
    /\ UnchangedQueue /\ UnchangedDocument /\ UnchangedScreens /\ UnchangedStore

----
(* yamui_events.c *)

\* an action list that forgets the errors of its actions
first_err_forgotten(first_err, err) == first_err

\* yui_action_list_execute: if (err != ESP_OK && first_err == ESP_OK) first_err = err
first_err_kept(first_err, err) ==
    IF err # ESP_OK /\ first_err = ESP_OK THEN err ELSE first_err

\* yui_action_list_execute: the next action, or return first_err
ActionListLoop ==
    /\ Running("action_list", "loop")
    /\ IF Top.i > Len(Top.list)
       THEN /\ stack' = Below
            /\ ret' = Top.err
            /\ last' = "action_list_return"
            /\ UnchangedQueue /\ UnchangedDocument /\ UnchangedScreens /\ UnchangedStore
       ELSE yui_nav_queue_submit(Top.list[Top.i].type, Top.list[Top.i].arg,
                                 WithTop([Top EXCEPT !.pc = "after_action"]))

\* yui_action_list_execute: keep the first error, next i
ActionListAfterAction ==
    /\ Running("action_list", "after_action")
    /\ stack' = WithTop([Top EXCEPT !.pc = "loop", !.i = @ + 1,
                                    !.err = first_err_kept(@, ret),
                                    !.log = Append(@, ret)])
    /\ last' = "action_done"
    /\ UNCHANGED ret
    /\ UnchangedQueue /\ UnchangedDocument /\ UnchangedScreens /\ UnchangedStore

----
(* The firmware's entry points on the UI thread *)

\* lvgl_yaml_gui_load_default: yui_nav_queue_init, yui_schema_runtime_load,
\* yui_navigation_push(initial_screen)
lvgl_yaml_gui_load_default ==
    /\ program = "app" /\ stack = <<>>
    /\ Len(s_nav_stack) < MaxNav
    /\ s_executor' = "nav"
    /\ yui_nav_queue_reset
    /\ s_loaded_schema' = TRUE
    /\ s_nav_stack' = yui_navigation_push(s_nav_stack, DefaultScreen)
    /\ stack' = <<RenderFrame>>
    /\ last' = "load_default"
    /\ UNCHANGED <<ret, calls, s_modal_stack, screen_shown, modal_deleted>>
    /\ UnchangedDocument /\ UnchangedStore

\* yui_widget_event_cb: a widget on the display runs its handler's action list
yui_widget_event_cb(list) ==
    /\ program = "app" /\ stack = <<>>
    /\ screen_shown # "none"
    /\ stack' = <<ActionListFrame(list)>>
    /\ last' = "widget_event"
    /\ UNCHANGED ret
    /\ UnchangedQueue /\ UnchangedDocument /\ UnchangedScreens /\ UnchangedStore

----
(* yamui_state.c *)

Keys == {"a", "b"}
Values == {"0", "1"}
Contexts == {"w1", "w2"}

\* seed lists and state: mappings handed to yui_state_seed / yui_state_seed_from_yaml
Seeds ==
    { <<[key |-> "a", value |-> "1"]>>,
      <<[key |-> "a", value |-> "0"], [key |-> "b", value |-> "1"]>>,
      <<[key |-> NULL, value |-> "1"], [key |-> "b", value |-> NULL]>> }

StateCall(op, key, value, err, updated, count, handle) ==
    [op |-> op, key |-> key, value |-> value, err |-> err, updated |-> updated,
     count |-> count, handle |-> handle]
NoStateCall == StateCall("none", NULL, NULL, ESP_OK, FALSE, 0, 0)

\* yui_empty_if_null
yui_empty_if_null(value) == IF value = NULL THEN "" ELSE value

\* yui_state_find_index: index of the first entry with the key, 0 when absent
yui_state_find_index(entries, key) ==
    IF \E n \in 1..Len(entries) : entries[n].key = key
    THEN CHOOSE n \in 1..Len(entries) :
            /\ entries[n].key = key
            /\ \A m \in 1..(n - 1) : entries[m].key # key
    ELSE 0

\* a set without the value equality short-circuit
value_unchanged_never(current, value) == FALSE

\* yui_state_set_internal: strcmp(s_entries[index].value, value) == 0
value_unchanged(current, value) == current = value

\* yui_state_is_wildcard
yui_state_is_wildcard(watch) == watch.key = NULL \/ watch.key = ""

\* a watcher table without key filters
yui_state_watch_matches_any(watch, key) == TRUE

\* yui_state_watch_matches
yui_state_watch_matches(watch, key) ==
    IF yui_state_is_wildcard(watch) THEN TRUE ELSE watch.key = key

\* yui_state_set_internal: the notifications copied under the lock, in table order
RECURSIVE Notifications(_, _, _)
Notifications(watchers, key, value) ==
    IF watchers = <<>> THEN <<>>
    ELSE (IF yui_state_watch_matches(Head(watchers), key)
          THEN <<[id |-> Head(watchers).id, ctx |-> Head(watchers).ctx,
                  key |-> key, value |-> value]>>
          ELSE <<>>) \o Notifications(Tail(watchers), key, value)

\* yui_state_get
yui_state_get(entries, key, default_value) ==
    IF key = NULL \/ key = "" THEN default_value
    ELSE IF yui_state_find_index(entries, key) > 0
         THEN entries[yui_state_find_index(entries, key)].value
         ELSE default_value

\* yui_state_set_internal: updated, for a key that is neither NULL nor empty
set_updated(entries, key, value) ==
    LET index == yui_state_find_index(entries, key)
    IN ~(index > 0 /\ value_unchanged(entries[index].value, yui_empty_if_null(value)))

\* yui_state_set_internal: the entry table when the lock is released
set_entries(entries, key, value) ==
    LET v == yui_empty_if_null(value)
        index == yui_state_find_index(entries, key)
    IN IF index > 0
       THEN IF set_updated(entries, key, value)
            THEN [entries EXCEPT ![index].value = v]
            ELSE entries
       ELSE Append(entries, [key |-> key, value |-> v])

\* yui_state_set_internal(key, value, notify)
yui_state_set_internal(key, value, notify) ==
    IF key = NULL \/ key = ""
    THEN /\ state_call' = StateCall("set", key, value, ESP_ERR_INVALID_ARG, FALSE, 0, 0)
         /\ notified' = <<>>
         /\ UNCHANGED s_entries
    ELSE LET updated == set_updated(s_entries, key, value)
             callbacks == IF notify /\ updated
                          THEN Notifications(s_watchers, key, yui_empty_if_null(value))
                          ELSE <<>>
         IN /\ Len(set_entries(s_entries, key, value)) <= MaxEntries
            /\ s_entries' = set_entries(s_entries, key, value)
            /\ notified' = callbacks
            /\ state_call' = StateCall("set", key, value, ESP_OK, updated, Len(callbacks), 0)

\* the call before a set, when it was a set with the same key and value
PrevCall(key, value) ==
    IF state_call.op = "set" /\ state_call.key = key /\ state_call.value = value
    THEN state_call ELSE NoStateCall

\* yui_state_set
yui_state_set(key, value) ==
    /\ yui_state_set_internal(key, value, TRUE)
    /\ prev_call' = PrevCall(key, value)
    /\ UNCHANGED <<s_watchers, s_watch_next_id, registered>>
    /\ UNCHANGED <<yaml, navVars, widgetVars, threadVars>>

\* yui_state_seed: yui_state_set_internal(key, value, false) for every entry
\* whose key is neither NULL nor empty
RECURSIVE seed_entries(_, _)
seed_entries(entries, seeds) ==
    IF seeds = <<>> THEN entries
    ELSE seed_entries(IF Head(seeds).key = NULL \/ Head(seeds).key = ""
                      THEN entries
                      ELSE set_entries(entries, Head(seeds).key, Head(seeds).value),
                      Tail(seeds))

\* yui_state_seed_from_yaml: as yui_state_seed, skipping the keys for which
\* yui_state_get(key, NULL) returns a value
RECURSIVE seed_entries_from_yaml(_, _)
seed_entries_from_yaml(entries, children) ==
    IF children = <<>> THEN entries
    ELSE seed_entries_from_yaml(
             IF Head(children).key = NULL \/ Head(children).key = "" THEN entries
             ELSE IF yui_state_get(entries, Head(children).key, NULL) # NULL THEN entries
             ELSE set_entries(entries, Head(children).key, Head(children).value),
             Tail(children))

\* yui_state_seed
yui_state_seed(seeds) ==
    /\ Len(seed_entries(s_entries, seeds)) <= MaxEntries
    /\ s_entries' = seed_entries(s_entries, seeds)
    /\ notified' = <<>>
    /\ state_call' = StateCall("seed", NULL, NULL, ESP_OK, FALSE, 0, 0)
    /\ prev_call' = NoStateCall
    /\ UNCHANGED <<s_watchers, s_watch_next_id, registered>>
    /\ UNCHANGED <<yaml, navVars, widgetVars, threadVars>>

\* yui_state_seed_from_yaml
yui_state_seed_from_yaml(state_node) ==
    /\ Len(seed_entries_from_yaml(s_entries, state_node)) <= MaxEntries
    /\ s_entries' = seed_entries_from_yaml(s_entries, state_node)
    /\ notified' = <<>>
    /\ state_call' = StateCall("seed_from_yaml", NULL, NULL, ESP_OK, FALSE, 0, 0)
    /\ prev_call' = NoStateCall
    /\ UNCHANGED <<s_watchers, s_watch_next_id, registered>>
    /\ UNCHANGED <<yaml, navVars, widgetVars, threadVars>>

\* watch->id = s_watch_next_id++ on a uint32_t, MaxWatchId standing for UINT32_MAX
next_watch_id(id) == (id + 1) % (MaxWatchId + 1)

\* yui_state_watch: the watcher appended to the table; a NULL or empty key
\* subscribes to every key
new_watch(id, key, ctx) ==
    [id |-> id, key |-> IF key = NULL \/ key = "" THEN NULL ELSE key, ctx |-> ctx]

\* yui_state_unwatch: the first watcher with the handle is removed and the last
\* watcher takes its place
unwatch_table(watchers, handle) ==
    LET found == { n \in 1..Len(watchers) : watchers[n].id = handle }
    IN IF handle = 0 \/ found = {} THEN watchers
       ELSE LET n == CHOOSE m \in found : \A o \in found : m <= o
                count == Len(watchers)
                moved == IF n < count
                         THEN [watchers EXCEPT ![n] = watchers[count]]
                         ELSE watchers
            IN SubSeq(moved, 1, count - 1)

\* the watchers still registered, in the order of their registration, once
\* the first watcher with the handle is gone
unwatch_registered(order, watchers, handle) ==
    LET found == { n \in 1..Len(watchers) : watchers[n].id = handle }
    IN IF handle = 0 \/ found = {} THEN order
       ELSE LET n == CHOOSE m \in found : \A o \in found : m <= o
                k == CHOOSE m \in 1..Len(order) :
                        /\ order[m] = watchers[n]
                        /\ \A o \in 1..(m - 1) : order[o] # watchers[n]
            IN SubSeq(order, 1, k - 1) \o SubSeq(order, k + 1, Len(order))

\* yui_state_watch
yui_state_watch(key, ctx) ==
    /\ s_watchers' = Append(s_watchers, new_watch(s_watch_next_id, key, ctx))
    /\ registered' = Append(registered, new_watch(s_watch_next_id, key, ctx))
    /\ s_watch_next_id' = next_watch_id(s_watch_next_id)
    /\ notified' = <<>>
    /\ state_call' = StateCall("watch", NULL, NULL, ESP_OK, FALSE, 0, 0)
    /\ prev_call' = NoStateCall
    /\ UNCHANGED s_entries
    /\ UNCHANGED <<yaml, navVars, widgetVars, threadVars>>

\* yui_state_unwatch
yui_state_unwatch(handle) ==
    /\ s_watchers' = unwatch_table(s_watchers, handle)
    /\ registered' = unwatch_registered(registered, s_watchers, handle)
    /\ notified' = <<>>
    /\ state_call' = StateCall("unwatch", NULL, NULL, ESP_OK, FALSE, 0, handle)
    /\ prev_call' = NoStateCall
    /\ UNCHANGED <<s_entries, s_watch_next_id>>
    /\ UNCHANGED <<yaml, navVars, widgetVars, threadVars>>

\* a clear that drops the watchers with the entries
yui_state_clear_with_watches ==
    /\ s_entries' = <<>>
    /\ s_watchers' = <<>>
    /\ registered' = <<>>
    /\ notified' = <<>>
    /\ state_call' = StateCall("clear", NULL, NULL, ESP_OK, FALSE, 0, 0)
    /\ prev_call' = NoStateCall
    /\ UNCHANGED s_watch_next_id
    /\ UNCHANGED <<yaml, navVars, widgetVars, threadVars>>

\* yui_state_clear: drops every entry, keeps the watchers
yui_state_clear ==
    /\ s_entries' = <<>>
    /\ notified' = <<>>
    /\ state_call' = StateCall("clear", NULL, NULL, ESP_OK, FALSE, 0, 0)
    /\ prev_call' = NoStateCall
    /\ UNCHANGED <<s_watchers, s_watch_next_id, registered>>
    /\ UNCHANGED <<yaml, navVars, widgetVars, threadVars>>

----
(* lvgl_yaml_gui.c: component scopes, widget runtimes and the LVGL objects *)
(* whose LV_EVENT_DELETE releases them.  LVGL itself is the environment:   *)
(* lv_obj_del sends LV_EVENT_DELETE to the object and then to each of its  *)
(* children, once per object.                                              *)

\* text templates: the state keys named by the {{ }} spans of a widget's text
Templates == { <<>>, <<"a">>, <<"a", "b">> }

\* struct yui_widget_runtime at an address nobody has allocated
NoRuntime ==
    [live |-> FALSE, obj |-> 0, scope |-> 0, watch_handles |-> <<>>, err |-> ESP_OK]

\* a reference taken without counting it
scope_acquired_uncounted(ref_count) == ref_count

\* yui_scope_acquire: scope->ref_count++
scope_acquired(ref_count) == ref_count + 1

\* yui_scope_acquire, 0 being the NULL scope
yui_scope_acquire(table, scope) ==
    IF scope = 0 THEN table
    ELSE [table EXCEPT ![scope].ref_count = scope_acquired(@)]

\* yui_scope_release, and yui_scope_destroy releasing the parent
RECURSIVE yui_scope_release(_, _)
yui_scope_release(table, scope) ==
    IF scope = 0 THEN table
    ELSE IF table[scope].ref_count = 0 THEN table
    ELSE IF table[scope].ref_count = 1
         THEN yui_scope_release([table EXCEPT ![scope].ref_count = 0,
                                              ![scope].destroyed = @ + 1],
                                table[scope].parent)
         ELSE [table EXCEPT ![scope].ref_count = @ - 1]

\* yui_scope_create: ref_count = 1 and a reference on the parent
yui_scope_create(table, parent) ==
    yui_scope_acquire(Append(table, [parent |-> parent, ref_count |-> 1, destroyed |-> 0]),
                      parent)

\* the scope a widget list is rendered with under this parent object
ScopeOf(table, p) == IF p = 0 THEN 0 ELSE table[p].scope

\* the records of objects and scopes freed before anything alive was created
LiveObjs == IF \E n \in 1..Len(objs) : objs[n].live THEN objs ELSE <<>>
LiveScopes == IF \E n \in 1..Len(objs) : objs[n].live THEN scopes ELSE <<>>

\* yui_widget_watch_state for every key of the text, in order: the watcher
\* table, the next id and the handles kept in runtime->watch_handles; a
\* handle of 0 is taken for "no watch" and is not kept
RECURSIVE bind_text(_, _, _)
bind_text(store, keys, ctx) ==
    IF keys = <<>> THEN store
    ELSE LET handle == store.next_id
             watch == new_watch(handle, Head(keys), ctx)
         IN bind_text([watchers |-> Append(store.watchers, watch),
                       order |-> Append(store.order, watch),
                       next_id |-> next_watch_id(handle),
                       handles |-> IF handle = 0 THEN store.handles
                                   ELSE Append(store.handles, handle)],
                      Tail(keys), ctx)

\* yui_widget_runtime_destroy: yui_state_unwatch for every handle kept
RECURSIVE unwatch_all(_, _)
unwatch_all(store, handles) ==
    IF handles = <<>> THEN store
    ELSE unwatch_all([watchers |-> unwatch_table(store.watchers, Head(handles)),
                      order |-> unwatch_registered(store.order, store.watchers, Head(handles))],
                     Tail(handles))

UnchangedNav == UNCHANGED <<yaml, navVars, yaml>>
UnchangedThreads == UNCHANGED threadVars
UnchangedValues == UNCHANGED <<s_entries, notified, state_call, prev_call>>

\* yui_render_component_instance under the object p (0: the screen): the
\* scope, then the container whose LV_EVENT_DELETE releases it; ok is false
\* when yui_scope_create fails after the scope itself was allocated
yui_render_component_instance(p, ok) ==
    /\ deleting = <<>>
    /\ p = 0 \/ (p \in 1..Len(objs) /\ objs[p].live /\ objs[p].scope # 0)
    /\ Len(LiveObjs) < MaxObjs /\ Len(LiveScopes) < MaxScopes
    /\ LET created == yui_scope_create(LiveScopes, ScopeOf(LiveObjs, p))
       IN IF ok
          THEN /\ scopes' = created
               /\ objs' = Append(LiveObjs, [parent |-> p, live |-> TRUE,
                                            scope |-> Len(created), runtime |-> NULL])
          ELSE /\ scopes' = yui_scope_release(created, Len(created))
               /\ objs' = LiveObjs
    /\ UNCHANGED <<runtimes, deleting, s_watchers, s_watch_next_id, registered>>
    /\ UnchangedValues /\ UnchangedNav /\ UnchangedThreads

\* yui_render_widget for a label under the object p: yui_widget_runtime_create
\* and yui_widget_bind_text, which stops with ESP_ERR_NO_MEM after count watches
yui_render_widget(p, ctx, text, count) ==
    /\ deleting = <<>>
    /\ p = 0 \/ (p \in 1..Len(objs) /\ objs[p].live /\ objs[p].scope # 0)
    /\ ~runtimes[ctx].live
    /\ Len(LiveObjs) < MaxObjs
    /\ count \in 0..Len(text)
    /\ Len(s_watchers) + count <= MaxWatch
    /\ LET bound == bind_text([watchers |-> s_watchers, order |-> registered,
                               next_id |-> s_watch_next_id, handles |-> <<>>],
                              SubSeq(text, 1, count), ctx)
       IN /\ s_watchers' = bound.watchers
          /\ registered' = bound.order
          /\ s_watch_next_id' = bound.next_id
          /\ runtimes' = [runtimes EXCEPT ![ctx] =
                            [live |-> TRUE, obj |-> Len(LiveObjs) + 1,
                             scope |-> ScopeOf(LiveObjs, p),
                             watch_handles |-> bound.handles,
                             err |-> IF count < Len(text) THEN ESP_ERR_NO_MEM ELSE ESP_OK]]
    /\ scopes' = yui_scope_acquire(LiveScopes, ScopeOf(LiveObjs, p))
    /\ objs' = Append(LiveObjs, [parent |-> p, live |-> TRUE, scope |-> 0, runtime |-> ctx])
    /\ UNCHANGED deleting
    /\ UnchangedValues /\ UnchangedNav /\ UnchangedThreads

\* the live children of an object, oldest first
Children(o) == SelectSeq([n \in 1..Len(objs) |-> n],
                         LAMBDA n : objs[n].live /\ objs[n].parent = o)

\* the objects of the subtrees of these objects, each parent before its children
RECURSIVE Subtrees(_)
Subtrees(roots) ==
    IF roots = <<>> THEN <<>>
    ELSE <<Head(roots)>> \o Subtrees(Children(Head(roots))) \o Subtrees(Tail(roots))

\* lv_obj_del(o): yui_modal_close_top, yui_modal_close_all and the failure
\* paths of yui_render_component_instance and yui_modal_show_component
lv_obj_del(o) ==
    /\ deleting = <<>>
    /\ o \in 1..Len(objs) /\ objs[o].live
    /\ deleting' = Subtrees(<<o>>)
    /\ UNCHANGED <<objs, scopes, runtimes, s_watchers, s_watch_next_id, registered>>
    /\ UnchangedValues /\ UnchangedNav /\ UnchangedThreads

\* lv_obj_clean(root) of yui_render_screen
lv_obj_clean ==
    /\ deleting = <<>>
    /\ Children(0) # <<>>
    /\ deleting' = Subtrees(Children(0))
    /\ UNCHANGED <<objs, scopes, runtimes, s_watchers, s_watch_next_id, registered>>
    /\ UnchangedValues /\ UnchangedNav /\ UnchangedThreads

\* LV_EVENT_DELETE of the next object being deleted: yui_scope_delete_cb for a
\* component container, yui_widget_event_cb -> yui_widget_runtime_destroy for
\* a widget
lv_event_delete ==
    /\ deleting # <<>>
    /\ LET o == Head(deleting)
           ctx == objs[o].runtime
       IN /\ objs' = [objs EXCEPT ![o].live = FALSE]
          /\ IF ctx = NULL
             THEN /\ scopes' = yui_scope_release(scopes, objs[o].scope)
                  /\ UNCHANGED <<runtimes, s_watchers, registered>>
             ELSE LET removed == unwatch_all([watchers |-> s_watchers, order |-> registered],
                                             runtimes[ctx].watch_handles)
                  IN /\ s_watchers' = removed.watchers
                     /\ registered' = removed.order
                     /\ scopes' = yui_scope_release(scopes, runtimes[ctx].scope)
                     /\ runtimes' = [runtimes EXCEPT ![ctx] = NoRuntime]
    /\ deleting' = Tail(deleting)
    /\ UNCHANGED s_watch_next_id
    /\ UnchangedValues /\ UnchangedNav /\ UnchangedThreads

----
(* yamui_state.c called from several threads: yui_state_set_internal step  *)
(* by step, with the recursive mutex s_lock of FreeRTOS.  The watches and   *)
(* the teardown of the widgets are those of the UI thread above, taken as   *)
(* one step each while the mutex is free.                                   *)

Threads == {"ui", "task"}

\* user_ctx of a watcher whose callback calls yui_state_set itself
AppCtx == "app"

\* the local variables of one call on a thread's stack: a yui_state_set_internal
\* (op "set") or a yui_state_watch_cb_t it invokes (op "cb")
StoreCall(op, pc, key, value, ctx) ==
    [op |-> op, pc |-> pc, key |-> key, value |-> value, ctx |-> ctx,
     index |-> 0, updated |-> FALSE, notifications |-> <<>>,
     matched |-> <<>>,      \* ghost: the user_ctx copied under the lock
     invoked |-> <<>>,      \* ghost: the user_ctx called back so far
     overwritten |-> FALSE, \* ghost: the key was set again after this commit
     read |-> NULL]         \* what yui_state_get returned to the callback

TopCall(t) == Head(tstack[t])
InCall(t, op, pcs) == tstack[t] # <<>> /\ TopCall(t).op = op /\ TopCall(t).pc \in pcs
SetTop(t, call) == [tstack EXCEPT ![t] = <<call>> \o Tail(@)]

\* xSemaphoreCreateRecursiveMutex
NewMutex == [owner |-> NULL, count |-> 0]

\* xSemaphoreTakeRecursive returns at once for the holder and for a free mutex
CanTake(t) == s_lock = 0 \/ mutexes[s_lock].owner \in {NULL, t}

\* xSemaphoreTakeRecursive(s_lock) in yui_state_lock
Taken(t) ==
    IF s_lock = 0 THEN mutexes
    ELSE [mutexes EXCEPT ![s_lock] = [owner |-> t, count |-> @.count + 1]]

\* a yui_state_unlock that leaves the mutex with its holder
Kept(t) == mutexes

\* xSemaphoreGiveRecursive(s_lock) in yui_state_unlock: fails for a mutex the
\* thread does not hold
Given(t) ==
    IF s_lock = 0 \/ mutexes[s_lock].owner # t THEN mutexes
    ELSE [mutexes EXCEPT ![s_lock] =
            IF @.count = 1 THEN NewMutex ELSE [@ EXCEPT !.count = @ - 1]]

UnchangedWidgets == UNCHANGED <<widgetVars, s_watchers, s_watch_next_id, registered>>
UnchangedGhosts == UNCHANGED <<notified, state_call, prev_call>>

\* a thread calls yui_state_set(key, value); the UI thread does so between
\* LVGL events
thread_set(t, key, value) ==
    /\ tstack[t] = <<>>
    /\ t = "ui" => deleting = <<>>
    /\ tstack' = [tstack EXCEPT ![t] = <<StoreCall("set", "ensure", key, value, NULL)>>]
    /\ UNCHANGED <<s_lock, mutexes, dangling, s_entries>>
    /\ UnchangedWidgets /\ UnchangedGhosts /\ UnchangedNav

\* yui_state_ensure_mutex: the test of s_lock, and the creation that follows
\* when the test found NULL
yui_state_ensure_mutex(t) ==
    /\ InCall(t, "set", {"ensure", "create"})
    /\ IF TopCall(t).pc = "ensure"
       THEN /\ tstack' = SetTop(t, [TopCall(t) EXCEPT
                                      !.pc = IF s_lock # 0 THEN "lock" ELSE "create"])
            /\ UNCHANGED <<s_lock, mutexes>>
       ELSE /\ mutexes' = Append(mutexes, NewMutex)
            /\ s_lock' = Len(mutexes) + 1
            /\ tstack' = SetTop(t, [TopCall(t) EXCEPT !.pc = "lock"])
    /\ UNCHANGED <<dangling, s_entries>>
    /\ UnchangedWidgets /\ UnchangedGhosts /\ UnchangedNav

\* yui_state_lock
yui_state_lock(t) ==
    /\ InCall(t, "set", {"lock"})
    /\ CanTake(t)
    /\ mutexes' = Taken(t)
    /\ tstack' = SetTop(t, [TopCall(t) EXCEPT !.pc = "find"])
    /\ UNCHANGED <<s_lock, dangling, s_entries>>
    /\ UnchangedWidgets /\ UnchangedGhosts /\ UnchangedNav

\* yui_state_set_internal: int index = yui_state_find_index(key)
set_find_index(t) ==
    /\ InCall(t, "set", {"find"})
    /\ tstack' = SetTop(t, [TopCall(t) EXCEPT
                              !.index = yui_state_find_index(s_entries, TopCall(t).key),
                              !.pc = "commit"])
    /\ UNCHANGED <<s_lock, mutexes, dangling, s_entries>>
    /\ UnchangedWidgets /\ UnchangedGhosts /\ UnchangedNav

\* yui_state_set_internal: the entry table after the branch taken for index
commit_entries(entries, index, key, value) ==
    IF index > 0
    THEN IF value_unchanged(entries[index].value, value)
         THEN entries
         ELSE [entries EXCEPT ![index].value = value]
    ELSE Append(entries, [key |-> key, value |-> value])

\* ghost: the calls that committed the key before this commit are overwritten
Overwrite(in_progress, key) ==
    [n \in 1..Len(in_progress) |->
        IF in_progress[n].op = "set" /\ in_progress[n].key = key
              /\ in_progress[n].pc = "notify"
        THEN [in_progress[n] EXCEPT !.overwritten = TRUE]
        ELSE in_progress[n]]

\* yui_state_set_internal: the update of the entry, the copy of the matching
\* watchers into notifications and yui_state_unlock
set_commit(t) ==
    /\ InCall(t, "set", {"commit"})
    /\ LET call == TopCall(t)
           updated == ~(call.index > 0
                        /\ value_unchanged(s_entries[call.index].value, call.value))
           copied == IF updated
                     THEN Notifications(s_watchers, call.key, call.value)
                     ELSE <<>>
           others == IF updated
                     THEN [u \in Threads |-> Overwrite(tstack[u], call.key)]
                     ELSE tstack
       IN /\ s_entries' = commit_entries(s_entries, call.index, call.key, call.value)
          /\ tstack' = [others EXCEPT ![t] =
                          <<[call EXCEPT !.updated = updated,
                                         !.notifications = copied,
                                         !.matched = [n \in 1..Len(copied) |-> copied[n].ctx],
                                         !.pc = "notify"]>> \o Tail(@)]
    /\ mutexes' = Given(t)
    /\ UNCHANGED <<s_lock, dangling>>
    /\ UnchangedWidgets /\ UnchangedGhosts /\ UnchangedNav

\* the calls in progress once the innermost one has returned
Returned(in_progress) ==
    IF Len(in_progress) > 1 /\ in_progress[2].pc = "nested"
    THEN <<[in_progress[2] EXCEPT !.pc = "return"]>> \o Tail(Tail(in_progress))
    ELSE Tail(in_progress)

\* yui_state_set_internal: const char *final_value = s_entries[index].value,
\* read by the callbacks after yui_state_unlock.  A later set of the key has
\* freed that string; the memory then holds what it held or, taken by the
\* yui_state_strdup of the later set, the value stored now.
final_values(call, entries) ==
    {call.value} \cup (IF call.overwritten
                       THEN {yui_state_get(entries, call.key, "")}
                       ELSE {})

\* yui_state_set_internal: one turn of the notification loop,
\* notifications[i].cb(key, final_value, notifications[i].user_ctx), or the
\* return after the last one
set_notify(t) ==
    /\ InCall(t, "set", {"notify"})
    /\ LET call == TopCall(t)
       IN IF call.notifications = <<>>
          THEN /\ tstack' = [tstack EXCEPT ![t] = Returned(@)]
               /\ UNCHANGED dangling
          ELSE LET ctx == Head(call.notifications).ctx
               IN /\ \E final_value \in final_values(call, s_entries) :
                        tstack' = [tstack EXCEPT ![t] =
                                     <<StoreCall("cb", "call", call.key, final_value, ctx),
                                       [call EXCEPT !.notifications = Tail(@),
                                                    !.invoked = Append(@, ctx)]>>
                                     \o Tail(@)]
                  /\ dangling' = (dangling \/ (ctx \in Contexts /\ ~runtimes[ctx].live))
    /\ UNCHANGED <<s_lock, mutexes, s_entries>>
    /\ UnchangedWidgets /\ UnchangedGhosts /\ UnchangedNav

\* yui_widget_state_cb: yui_widget_refresh_text reads the key with
\* yui_state_get, lock and unlock included.  For a freed runtime the memory
\* read is either still intact, and the text is refreshed all the same, or
\* it is not, and the callback returns on a NULL text_target or text_template.
yui_widget_state_cb(t) ==
    /\ InCall(t, "cb", {"call"})
    /\ TopCall(t).ctx \in Contexts
    /\ \E intact \in BOOLEAN :
        /\ runtimes[TopCall(t).ctx].live => intact
        /\ intact => CanTake(t)
        /\ tstack' = SetTop(t, [TopCall(t) EXCEPT
                                  !.read = IF intact
                                           THEN yui_state_get(s_entries, TopCall(t).key, "")
                                           ELSE NULL,
                                  !.overwritten = tstack[t][2].overwritten,
                                  !.pc = "return"])
    /\ UNCHANGED <<s_lock, mutexes, dangling, s_entries>>
    /\ UnchangedWidgets /\ UnchangedGhosts /\ UnchangedNav

\* the callback of the application: yui_state_set of the other key to the
\* value it was notified of
app_state_cb(t) ==
    /\ InCall(t, "cb", {"call"})
    /\ TopCall(t).ctx = AppCtx
    /\ tstack' = [tstack EXCEPT ![t] =
                    <<StoreCall("set", "ensure", "b", TopCall(t).value, NULL),
                      [TopCall(t) EXCEPT !.pc = "nested"]>> \o Tail(@)]
    /\ UNCHANGED <<s_lock, mutexes, dangling, s_entries>>
    /\ UnchangedWidgets /\ UnchangedGhosts /\ UnchangedNav

\* return of a callback to the notification loop
thread_return(t) ==
    /\ InCall(t, "cb", {"return"})
    /\ tstack' = [tstack EXCEPT ![t] = Returned(@)]
    /\ UNCHANGED <<s_lock, mutexes, dangling, s_entries>>
    /\ UnchangedWidgets /\ UnchangedGhosts /\ UnchangedNav

\* the UI thread, between two of its own calls, with the mutex free
UiIdle == tstack["ui"] = <<>> /\ s_lock # 0 /\ CanTake("ui")

\* the handle counter has not wrapped
FreshHandles == s_watch_next_id \in 1..MaxWatchId

\* yui_state_watch(key, app callback, AppCtx) by the application
app_watch ==
    /\ UiIdle /\ deleting = <<>> /\ FreshHandles
    /\ \A n \in 1..Len(s_watchers) : s_watchers[n].ctx # AppCtx
    /\ Len(s_watchers) < MaxWatch
    /\ s_watchers' = Append(s_watchers, new_watch(s_watch_next_id, "a", AppCtx))
    /\ registered' = Append(registered, new_watch(s_watch_next_id, "a", AppCtx))
    /\ s_watch_next_id' = next_watch_id(s_watch_next_id)
    /\ UNCHANGED <<threadVars, widgetVars, s_entries>>
    /\ UnchangedGhosts /\ UnchangedNav

\* a label bound to one key is rendered on the screen
ui_render_widget(ctx, key) ==
    UiIdle /\ FreshHandles /\ yui_render_widget(0, ctx, <<key>>, 1)

\* the screen is cleaned and its objects receive LV_EVENT_DELETE
ui_obj_clean == UiIdle /\ lv_obj_clean
ui_event_delete == UiIdle /\ lv_event_delete

----
(* yamui_expr.c *)
(* An expression is the C string between {{ and }}.  Strings are strings,  *)
(* read one character at a time as the lexer does.  A double is held in    *)
(* thousandths, the precision yui_expr_as_cstring prints.                  *)

Lower == "abcdefghijklmnopqrstuvwxyz"
Upper == "ABCDEFGHIJKLMNOPQRSTUVWXYZ"
Digits == "0123456789"

\* the character at a position of a string, "" past its end (the '\0')
CharAt(s, n) == IF n >= 1 /\ n <= Len(s) THEN SubSeq(s, n, n) ELSE ""

\* position of a character in a string, 0 when absent (strchr)
IndexOf(s, c) ==
    IF \E n \in 1..Len(s) : SubSeq(s, n, n) = c
    THEN CHOOSE n \in 1..Len(s) :
            SubSeq(s, n, n) = c /\ \A m \in 1..(n - 1) : SubSeq(s, m, m) # c
    ELSE 0

\* the characters of the classes of <ctype.h>
LowerCase == { SubSeq(Lower, n, n) : n \in 1..26 }
UpperCase == { SubSeq(Upper, n, n) : n \in 1..26 }
DigitChars == { SubSeq(Digits, n, n) : n \in 1..10 }

isdigit(c) == c \in DigitChars
isalpha(c) == c \in LowerCase \/ c \in UpperCase
isalnum(c) == isalpha(c) \/ isdigit(c)
isspace(c) == c \in {" ", "\t", "\n", "\r"}
tolower(c) == IF c \in UpperCase THEN CharAt(Lower, IndexOf(Upper, c)) ELSE c

\* strcasecmp(a, b) == 0
RECURSIVE strcaseeq(_, _)
strcaseeq(a, b) ==
    IF a = "" \/ b = "" THEN a = b
    ELSE tolower(Head(a)) = tolower(Head(b)) /\ strcaseeq(Tail(a), Tail(b))

\* the digits of s from position n on, as a number, a digit at a time
RECURSIVE ScanDigits(_, _, _)
ScanDigits(s, n, acc) ==
    IF isdigit(CharAt(s, n))
    THEN ScanDigits(s, n + 1, [value |-> 10 * acc.value + (IndexOf(Digits, CharAt(s, n)) - 1),
                               count |-> acc.count + 1])
    ELSE acc

\* the decimals after a point: the first three digits, in thousandths
Decimals(s, n) ==
    LET d(k) == IF isdigit(CharAt(s, n + k)) /\ \A j \in 0..(k - 1) : isdigit(CharAt(s, n + j))
                THEN IndexOf(Digits, CharAt(s, n + k)) - 1 ELSE 0
    IN 100 * d(0) + 10 * d(1) + d(2)

\* atof: blanks, a sign, digits, a point and decimals; 0 without a number
RECURSIVE atof_from(_, _)
atof_from(s, n) ==
    IF isspace(CharAt(s, n)) THEN atof_from(s, n + 1)
    ELSE LET sign == IF CharAt(s, n) = "-" THEN -1 ELSE 1
             start == IF CharAt(s, n) \in {"-", "+"} THEN n + 1 ELSE n
             whole == ScanDigits(s, start, [value |-> 0, count |-> 0])
             point == start + whole.count
         IN sign * (1000 * whole.value
                    + (IF CharAt(s, point) = "." THEN Decimals(s, point + 1) ELSE 0))
atof(s) == atof_from(s, 1)

\* snprintf("%.3f") and the removal of the trailing zeros and of the point
FormatNumber(number) ==
    LET magnitude == IF number < 0 THEN 0 - number ELSE number
        frac == magnitude % 1000
        digits == CharAt(Digits, (frac \div 100) + 1) \o CharAt(Digits, ((frac \div 10) % 10) + 1)
                  \o CharAt(Digits, (frac % 10) + 1)
        kept == IF frac = 0 THEN ""
                ELSE IF frac % 100 = 0 THEN "." \o SubSeq(digits, 1, 1)
                ELSE IF frac % 10 = 0 THEN "." \o SubSeq(digits, 1, 2)
                ELSE "." \o digits
    IN (IF number < 0 THEN "-" ELSE "") \o ToString(magnitude \div 1000) \o kept

\* yui_expr_value_t
ExprValue(type, string, number, boolean) ==
    [type |-> type, string |-> string, number |-> number, boolean |-> boolean]
\* yui_expr_make_null
yui_expr_make_null == ExprValue("NULL", "", 0, FALSE)
\* yui_expr_value_set_string_copy, yui_expr_value_set_string_ref
yui_expr_value_set_string(text) == ExprValue("STRING", text, 0, FALSE)
\* yui_expr_value_set_number
yui_expr_value_set_number(number) == ExprValue("NUMBER", "", number, FALSE)
\* yui_expr_value_set_bool
yui_expr_value_set_bool(flag) == ExprValue("BOOL", "", 0, flag)

\* yui_expr_as_number
yui_expr_as_number(value) ==
    CASE value.type = "NUMBER" -> value.number
      [] value.type = "BOOL" -> IF value.boolean THEN 1000 ELSE 0
      [] value.type = "STRING" -> IF value.string = "" THEN 0 ELSE atof(value.string)
      [] OTHER -> 0

\* yui_expr_as_bool
yui_expr_as_bool(value) ==
    CASE value.type = "BOOL" -> value.boolean
      [] value.type = "NUMBER" -> value.number # 0
      [] value.type = "STRING" -> value.string # ""
      [] OTHER -> FALSE

\* yui_expr_as_cstring
yui_expr_as_cstring(value) ==
    CASE value.type = "STRING" -> value.string
      [] value.type = "NUMBER" -> FormatNumber(value.number)
      [] value.type = "BOOL" -> IF value.boolean THEN "true" ELSE "false"
      [] OTHER -> ""

\* yui_expr_token_t, and the cursor of the lexer after it
Token(type, text, number, cursor) ==
    [type |-> type, text |-> text, number |-> number, cursor |-> cursor]
\* yui_expr_make_simple_token
yui_expr_make_simple_token(type, cursor) == Token(type, "", 0, cursor)

\* yui_expr_lexer_skip_whitespace: the cursor after the blanks
RECURSIVE yui_expr_lexer_skip_whitespace(_, _)
yui_expr_lexer_skip_whitespace(input, cursor) ==
    IF isspace(CharAt(input, cursor))
    THEN yui_expr_lexer_skip_whitespace(input, cursor + 1)
    ELSE cursor

\* yui_expr_scan_string: the character an escape stands for
Unescaped(next) ==
    CASE next = "n" -> "\n"
      [] next = "t" -> "\t"
      [] next = "r" -> "\r"
      [] OTHER -> next

\* yui_expr_scan_string, the cursor after the opening quote
RECURSIVE yui_expr_scan_string(_, _, _, _)
yui_expr_scan_string(input, cursor, quote, buffer) ==
    LET c == CharAt(input, cursor)
    IN IF c = "" THEN yui_expr_make_simple_token("ERROR", cursor)
       ELSE IF c = quote THEN Token("STRING", buffer, 0, cursor + 1)
       ELSE IF c = "\\" /\ CharAt(input, cursor + 1) # ""
            THEN yui_expr_scan_string(input, cursor + 2, quote,
                                      buffer \o Unescaped(CharAt(input, cursor + 1)))
            ELSE yui_expr_scan_string(input, cursor + 1, quote, buffer \o c)

\* yui_expr_is_identifier_char
yui_expr_is_identifier_char(c) == isalnum(c) \/ c \in {"_", ".", "-"}

\* the cursor after the identifier characters
RECURSIVE IdentifierEnd(_, _)
IdentifierEnd(input, cursor) ==
    IF yui_expr_is_identifier_char(CharAt(input, cursor))
    THEN IdentifierEnd(input, cursor + 1)
    ELSE cursor

\* yui_expr_scan_identifier, the cursor after the first character
yui_expr_scan_identifier(input, cursor) ==
    LET end == IdentifierEnd(input, cursor)
        text == SubSeq(input, cursor - 1, end - 1)
    IN IF strcaseeq(text, "true") THEN yui_expr_make_simple_token("TRUE", end)
       ELSE IF strcaseeq(text, "false") THEN yui_expr_make_simple_token("FALSE", end)
       ELSE IF strcaseeq(text, "null") THEN yui_expr_make_simple_token("NULL", end)
       ELSE Token("IDENTIFIER", text, 0, end)

\* the cursor after the digits and at most one point
RECURSIVE NumberEnd(_, _, _)
NumberEnd(input, cursor, has_dot) ==
    IF isdigit(CharAt(input, cursor)) THEN NumberEnd(input, cursor + 1, has_dot)
    ELSE IF ~has_dot /\ CharAt(input, cursor) = "." THEN NumberEnd(input, cursor + 1, TRUE)
    ELSE cursor

\* yui_expr_scan_number, the cursor after the first character
yui_expr_scan_number(input, cursor) ==
    LET end == NumberEnd(input, cursor, CharAt(input, cursor - 1) = ".")
    IN Token("NUMBER", "", atof(SubSeq(input, cursor - 1, end - 1)), end)

\* yui_expr_lexer_next_token
yui_expr_lexer_next_token(input, from) ==
    LET at == yui_expr_lexer_skip_whitespace(input, from)
        c == CharAt(input, at)
        cursor == at + 1
        match(expected) == CharAt(input, cursor) = expected
    IN IF c = "" THEN yui_expr_make_simple_token("EOF", at)
       ELSE IF isalpha(c) \/ c = "_" THEN yui_expr_scan_identifier(input, cursor)
       ELSE IF isdigit(c) \/ (c = "." /\ isdigit(CharAt(input, cursor)))
            THEN yui_expr_scan_number(input, cursor)
       ELSE CASE c \in {"\"", "'"} -> yui_expr_scan_string(input, cursor, c, "")
              [] c = "+" -> yui_expr_make_simple_token("PLUS", cursor)
              [] c = "-" -> yui_expr_make_simple_token("MINUS", cursor)
              [] c = "*" -> yui_expr_make_simple_token("STAR", cursor)
              [] c = "/" -> yui_expr_make_simple_token("SLASH", cursor)
              [] c = "(" -> yui_expr_make_simple_token("LPAREN", cursor)
              [] c = ")" -> yui_expr_make_simple_token("RPAREN", cursor)
              [] c = "!" -> IF match("=")
                            THEN yui_expr_make_simple_token("BANG_EQUAL", cursor + 1)
                            ELSE yui_expr_make_simple_token("BANG", cursor)
              [] c = "=" -> IF match("=")
                            THEN yui_expr_make_simple_token("EQUAL_EQUAL", cursor + 1)
                            ELSE yui_expr_make_simple_token("ERROR", cursor)
              [] c = ">" -> IF match("=")
                            THEN yui_expr_make_simple_token("GREATER_EQUAL", cursor + 1)
                            ELSE yui_expr_make_simple_token("GREATER", cursor)
              [] c = "<" -> IF match("=")
                            THEN yui_expr_make_simple_token("LESS_EQUAL", cursor + 1)
                            ELSE yui_expr_make_simple_token("LESS", cursor)
              [] c = "&" -> IF match("&")
                            THEN yui_expr_make_simple_token("AND", cursor + 1)
                            ELSE yui_expr_make_simple_token("ERROR", cursor)
              [] c = "|" -> IF match("|")
                            THEN yui_expr_make_simple_token("OR", cursor + 1)
                            ELSE yui_expr_make_simple_token("ERROR", cursor)
              [] c = "?" -> IF match("?")
                            THEN yui_expr_make_simple_token("COALESCE", cursor + 1)
                            ELSE yui_expr_make_simple_token("QUESTION", cursor)
              [] c = ":" -> yui_expr_make_simple_token("COLON", cursor)
              [] OTHER -> yui_expr_make_simple_token("ERROR", cursor)

\* lvgl_yaml_gui.c: YUI_TEXT_BUFFER_MAX
YUI_TEXT_BUFFER_MAX == 256

\* strstr(s + from - 1, "}}") or "{{": position of the first occurrence at or
\* after from, 0 when there is none
FindPair(s, from, pair) ==
    IF \E n \in from..(Len(s) - 1) : SubSeq(s, n, n + 1) = pair
    THEN CHOOSE n \in from..(Len(s) - 1) :
            SubSeq(s, n, n + 1) = pair /\ \A m \in from..(n - 1) : SubSeq(s, m, m + 1) # pair
    ELSE 0

\* yui_expr_parser_t: the current token carries the cursor of the lexer;
\* resolver_ctx is the scope of yui_expression_ctx_t with the scopes and the
\* entries of the store it reads; resolved is the list of the symbols handed
\* to the resolver so far
Parser(input, current, status, resolver_ctx, resolved) ==
    [input |-> input, current |-> current, status |-> status,
     resolver_ctx |-> resolver_ctx, resolved |-> resolved]

\* what a parse function returns and the parser it leaves
Parsed(value, parser) == [value |-> value, parser |-> parser]

RECURSIVE parser_call(_, _)

\* yui_expr_parser_advance
yui_expr_parser_advance(parser) ==
    LET token == yui_expr_lexer_next_token(parser.input, parser.current.cursor)
    IN [parser EXCEPT !.current = token,
                      !.status = IF token.type = "ERROR" THEN ESP_ERR_INVALID_ARG ELSE @]

\* yui_expr_parser_expect
yui_expr_parser_expect(parser, type) ==
    IF parser.current.type = type THEN parser_call("advance", parser)
    ELSE [parser EXCEPT !.status = ESP_ERR_INVALID_ARG]

\* yui_scope_find_prop: the prop of the nearest scope of the chain that
\* declares the name, as a list of one prop, empty when none does (NULL)
RECURSIVE yui_scope_find_prop(_, _, _)
yui_scope_find_prop(table, scope, name) ==
    IF scope = 0 THEN <<>>
    ELSE IF \E i \in 1..Len(table[scope].props) : table[scope].props[i].name = name
         THEN LET i == CHOOSE i \in 1..Len(table[scope].props) :
                          /\ table[scope].props[i].name = name
                          /\ \A j \in 1..(i - 1) : table[scope].props[j].name # name
              IN <<table[scope].props[i]>>
         ELSE yui_scope_find_prop(table, table[scope].parent, name)

RECURSIVE yui_format_text_from(_, _, _, _, _)

\* yui_format_text(tmpl, scope, out, out_len): the text left in out and the
\* symbols handed to the resolver while it was built
yui_format_text(tmpl, resolver_ctx, out_len) ==
    IF out_len = 0 THEN [out |-> "", resolved |-> <<>>]
    ELSE yui_format_text_from(tmpl, 1, resolver_ctx, out_len, [out |-> "", resolved |-> <<>>])

\* yui_scope_resolve_prop: the template of the prop formatted in the parent
\* of the scope the lookup started from; found is false for the NULL it
\* returns when no scope of the chain declares the name
yui_scope_resolve_prop(resolver_ctx, name) ==
    LET prop == yui_scope_find_prop(resolver_ctx.scopes, resolver_ctx.scope, name)
        resolver_scope == IF resolver_ctx.scope = 0 THEN 0
                          ELSE resolver_ctx.scopes[resolver_ctx.scope].parent
    IN IF prop = <<>> THEN [found |-> FALSE, value |-> ""]
       ELSE [found |-> TRUE,
             value |-> yui_format_text(prop[1].template_value,
                                       [resolver_ctx EXCEPT !.scope = resolver_scope],
                                       YUI_TEXT_BUFFER_MAX).out]

\* the resolver reading the state store before the props
yui_expression_symbol_resolver_state_first(identifier, resolver_ctx) ==
    IF identifier = "" THEN yui_expr_make_null
    ELSE LET value_of(prop) ==
                 yui_expr_value_set_string(
                     IF yui_state_find_index(resolver_ctx.entries, identifier) > 0
                        \/ ~prop.found
                     THEN yui_state_get(resolver_ctx.entries, identifier, "")
                     ELSE prop.value)
         IN value_of(IF resolver_ctx.scope # 0
                     THEN yui_scope_resolve_prop(resolver_ctx, identifier)
                     ELSE [found |-> FALSE, value |-> ""])

\* yui_expression_symbol_resolver
yui_expression_symbol_resolver(identifier, resolver_ctx) ==
    IF identifier = "" THEN yui_expr_make_null
    ELSE LET value_of(prop) ==
                 yui_expr_value_set_string(
                     IF prop.found THEN prop.value
                     ELSE yui_state_get(resolver_ctx.entries, identifier, ""))
         IN value_of(IF resolver_ctx.scope # 0
                     THEN yui_scope_resolve_prop(resolver_ctx, identifier)
                     ELSE [found |-> FALSE, value |-> ""])

\* yui_expr_parse_primary
yui_expr_parse_primary(parser) ==
    IF parser.status # ESP_OK THEN Parsed(yui_expr_make_null, parser)
    ELSE LET type == parser.current.type
         IN CASE type = "NUMBER" ->
                    Parsed(yui_expr_value_set_number(parser.current.number),
                           parser_call("advance", parser))
              [] type = "TRUE" ->
                    Parsed(yui_expr_value_set_bool(TRUE), parser_call("advance", parser))
              [] type = "FALSE" ->
                    Parsed(yui_expr_value_set_bool(FALSE), parser_call("advance", parser))
              [] type = "NULL" ->
                    Parsed(yui_expr_make_null, parser_call("advance", parser))
              [] type = "STRING" ->
                    Parsed(yui_expr_value_set_string(parser.current.text),
                           parser_call("advance", parser))
              [] type = "IDENTIFIER" ->
                    LET symbol == parser.current.text
                        advanced == parser_call("advance", parser)
                    IN Parsed(yui_expression_symbol_resolver(symbol, parser.resolver_ctx),
                              [advanced EXCEPT !.resolved = Append(@, symbol)])
              [] type = "LPAREN" ->
                    LET inner == parser_call("expression", parser_call("advance", parser))
                    IN Parsed(inner.value, yui_expr_parser_expect(inner.parser, "RPAREN"))
              [] OTHER ->
                    Parsed(yui_expr_make_null, [parser EXCEPT !.status = ESP_ERR_INVALID_ARG])

\* yui_expr_parse_unary
yui_expr_parse_unary(parser) ==
    IF parser.status # ESP_OK THEN Parsed(yui_expr_make_null, parser)
    ELSE IF parser.current.type = "BANG"
    THEN LET operand == parser_call("unary", parser_call("advance", parser))
         IN Parsed(yui_expr_value_set_bool(~yui_expr_as_bool(operand.value)), operand.parser)
    ELSE IF parser.current.type = "MINUS"
    THEN LET operand == parser_call("unary", parser_call("advance", parser))
         IN Parsed(yui_expr_value_set_number(0 - yui_expr_as_number(operand.value)),
                   operand.parser)
    ELSE parser_call("primary", parser)

\* yui_expr_parse_factor: the loop over * and /
RECURSIVE factor_loop(_)
factor_loop(left) ==
    IF left.parser.status = ESP_OK /\ left.parser.current.type \in {"STAR", "SLASH"}
    THEN LET type == left.parser.current.type
             rhs == parser_call("unary", parser_call("advance", left.parser))
             l == yui_expr_as_number(left.value)
             r == yui_expr_as_number(rhs.value)
         IN factor_loop(
              IF type = "STAR"
              THEN Parsed(yui_expr_value_set_number((l * r) \div 1000), rhs.parser)
              ELSE IF r # 0
              THEN Parsed(yui_expr_value_set_number((l * 1000) \div r), rhs.parser)
              ELSE Parsed(yui_expr_value_set_number(0),
                          [rhs.parser EXCEPT !.status = ESP_ERR_INVALID_ARG]))
    ELSE left
\* yui_expr_parse_factor
yui_expr_parse_factor(parser) == factor_loop(parser_call("unary", parser))

\* yui_expr_parse_term: the loop over + and -
RECURSIVE term_loop(_)
term_loop(left) ==
    IF left.parser.status = ESP_OK /\ left.parser.current.type \in {"PLUS", "MINUS"}
    THEN LET type == left.parser.current.type
             rhs == parser_call("factor", parser_call("advance", left.parser))
             l == yui_expr_as_number(left.value)
             r == yui_expr_as_number(rhs.value)
         IN term_loop(
              IF type = "PLUS" /\ (left.value.type = "STRING" \/ rhs.value.type = "STRING")
              THEN Parsed(yui_expr_value_set_string(yui_expr_as_cstring(left.value)
                                                    \o yui_expr_as_cstring(rhs.value)),
                          rhs.parser)
              ELSE Parsed(yui_expr_value_set_number(IF type = "PLUS" THEN l + r ELSE l - r),
                          rhs.parser))
    ELSE left
\* yui_expr_parse_term
yui_expr_parse_term(parser) == term_loop(parser_call("factor", parser))

\* yui_expr_parse_comparison: the loop over > >= < <=
RECURSIVE comparison_loop(_)
comparison_loop(left) ==
    IF /\ left.parser.status = ESP_OK
       /\ left.parser.current.type \in {"GREATER", "GREATER_EQUAL", "LESS", "LESS_EQUAL"}
    THEN LET type == left.parser.current.type
             rhs == parser_call("term", parser_call("advance", left.parser))
             l == yui_expr_as_number(left.value)
             r == yui_expr_as_number(rhs.value)
         IN comparison_loop(
              Parsed(yui_expr_value_set_bool(CASE type = "GREATER" -> l > r
                                               [] type = "GREATER_EQUAL" -> l >= r
                                               [] type = "LESS" -> l < r
                                               [] OTHER -> l <= r),
                     rhs.parser))
    ELSE left
\* yui_expr_parse_comparison
yui_expr_parse_comparison(parser) == comparison_loop(parser_call("term", parser))

\* yui_expr_values_equal
yui_expr_values_equal(lhs, rhs) ==
    IF lhs.type = "STRING" \/ rhs.type = "STRING"
    THEN yui_expr_as_cstring(lhs) = yui_expr_as_cstring(rhs)
    ELSE IF lhs.type = "BOOL" \/ rhs.type = "BOOL"
    THEN yui_expr_as_bool(lhs) = yui_expr_as_bool(rhs)
    ELSE yui_expr_as_number(lhs) = yui_expr_as_number(rhs)

\* yui_expr_parse_equality: the loop over == and !=
RECURSIVE equality_loop(_)
equality_loop(left) ==
    IF left.parser.status = ESP_OK /\ left.parser.current.type \in {"EQUAL_EQUAL", "BANG_EQUAL"}
    THEN LET type == left.parser.current.type
             rhs == parser_call("comparison", parser_call("advance", left.parser))
             eq == yui_expr_values_equal(left.value, rhs.value)
         IN equality_loop(
              Parsed(yui_expr_value_set_bool(IF type = "BANG_EQUAL" THEN ~eq ELSE eq),
                     rhs.parser))
    ELSE left
\* yui_expr_parse_equality
yui_expr_parse_equality(parser) == equality_loop(parser_call("comparison", parser))

\* yui_expr_parse_and: the loop over &&
RECURSIVE and_loop(_)
and_loop(left) ==
    IF left.parser.status = ESP_OK /\ left.parser.current.type = "AND"
    THEN LET rhs == parser_call("equality", parser_call("advance", left.parser))
         IN and_loop(Parsed(yui_expr_value_set_bool(yui_expr_as_bool(left.value)
                                                    /\ yui_expr_as_bool(rhs.value)),
                            rhs.parser))
    ELSE left
\* yui_expr_parse_and
yui_expr_parse_and(parser) == and_loop(parser_call("equality", parser))

\* yui_expr_parse_or: the loop over ||
RECURSIVE or_loop(_)
or_loop(left) ==
    IF left.parser.status = ESP_OK /\ left.parser.current.type = "OR"
    THEN LET rhs == parser_call("and", parser_call("advance", left.parser))
         IN or_loop(Parsed(yui_expr_value_set_bool(yui_expr_as_bool(left.value)
                                                   \/ yui_expr_as_bool(rhs.value)),
                           rhs.parser))
    ELSE left
\* yui_expr_parse_or
yui_expr_parse_or(parser) == or_loop(parser_call("and", parser))

\* yui_expr_parse_coalesce: a value that is neither null nor the empty string
coalesce_keeps(value) == value.type # "NULL" /\ ~(value.type = "STRING" /\ value.string = "")

\* yui_expr_parse_coalesce: the loop over ??; the right operand is parsed by
\* yui_expr_parse_or whether or not its value is kept
RECURSIVE coalesce_loop(_)
coalesce_loop(left) ==
    IF left.parser.status = ESP_OK /\ left.parser.current.type = "COALESCE"
    THEN LET rhs == parser_call("or", parser_call("advance", left.parser))
         IN coalesce_loop(IF coalesce_keeps(left.value)
                          THEN Parsed(left.value, rhs.parser)
                          ELSE rhs)
    ELSE left
\* yui_expr_parse_coalesce
yui_expr_parse_coalesce(parser) == coalesce_loop(parser_call("or", parser))

\* yui_expr_parse_ternary: which of the two parsed branches is the value
ternary_choice(cond, true_branch, false_branch) ==
    IF cond THEN true_branch ELSE false_branch

\* yui_expr_parse_ternary: both branches are parsed by
\* yui_expr_parse_expression, then one of the two values is kept
yui_expr_parse_ternary(parser) ==
    LET condition == parser_call("coalesce", parser)
    IN IF condition.parser.status = ESP_OK /\ condition.parser.current.type = "QUESTION"
       THEN LET cond == yui_expr_as_bool(condition.value)
                true_branch == parser_call("expression",
                                   parser_call("advance", condition.parser))
                false_branch == parser_call("expression",
                                    yui_expr_parser_expect(true_branch.parser, "COLON"))
            IN Parsed(ternary_choice(cond, true_branch.value, false_branch.value),
                      false_branch.parser)
       ELSE condition

\* yui_expr_parse_expression
yui_expr_parse_expression(parser) == parser_call("ternary", parser)

\* a call of a function of the parser by another: the parse functions and
\* yui_expr_parser_advance
parser_call(function, parser) ==
    CASE function = "advance" -> yui_expr_parser_advance(parser)
      [] function = "primary" -> yui_expr_parse_primary(parser)
      [] function = "unary" -> yui_expr_parse_unary(parser)
      [] function = "factor" -> yui_expr_parse_factor(parser)
      [] function = "term" -> yui_expr_parse_term(parser)
      [] function = "comparison" -> yui_expr_parse_comparison(parser)
      [] function = "equality" -> yui_expr_parse_equality(parser)
      [] function = "and" -> yui_expr_parse_and(parser)
      [] function = "or" -> yui_expr_parse_or(parser)
      [] function = "coalesce" -> yui_expr_parse_coalesce(parser)
      [] function = "ternary" -> yui_expr_parse_ternary(parser)
      [] function = "expression" -> yui_expr_parse_expression(parser)

\* yui_expr_eval: the status, the value and the symbols resolved
yui_expr_eval(expression, resolver_ctx) ==
    LET result(parsed) ==
            [err |-> parsed.parser.status,
             value |-> IF parsed.parser.status = ESP_OK THEN parsed.value
                       ELSE yui_expr_make_null,
             resolved |-> parsed.parser.resolved]
    IN result(yui_expr_parse_expression(yui_expr_parser_advance(
                  Parser(expression, yui_expr_make_simple_token("EOF", 1), ESP_OK,
                         resolver_ctx, <<>>))))

\* yui_expr_eval_to_string into a buffer of out_len >= 1 characters
yui_expr_eval_to_string(expression, resolver_ctx, out_len) ==
    LET result(evaluated, text) ==
            [err |-> evaluated.err,
             out |-> IF evaluated.err # ESP_OK THEN ""
                     ELSE IF Len(text) >= out_len THEN SubSeq(text, 1, out_len - 1)
                     ELSE text,
             resolved |-> evaluated.resolved]
        converted(evaluated) == result(evaluated, yui_expr_as_cstring(evaluated.value))
    IN converted(yui_expr_eval(expression, resolver_ctx))

\* a failing span leaves the name of its status in the text
span_text_with_status(evaluated) ==
    IF evaluated.err = ESP_OK THEN evaluated.out ELSE evaluated.err

\* yui_format_text: what a span adds to out: the text of its value when
\* yui_expr_eval_to_string returns ESP_OK, nothing otherwise
span_text(evaluated) ==
    IF evaluated.err = ESP_OK THEN evaluated.out ELSE ""

\* yui_format_text: the loop, pos characters being written (pos = Len(out))
yui_format_text_from(tmpl, at, resolver_ctx, out_len, acc) ==
    IF CharAt(tmpl, at) = "" \/ Len(acc.out) + 1 >= out_len THEN acc
    ELSE IF CharAt(tmpl, at) = "{" /\ CharAt(tmpl, at + 1) = "{"
    THEN LET end == FindPair(tmpl, at + 2, "}}")
         IN IF end = 0 THEN acc
            ELSE LET appended(evaluated) ==
                         yui_format_text_from(tmpl, end + 2, resolver_ctx, out_len,
                                              [out |-> acc.out \o span_text(evaluated),
                                               resolved |-> acc.resolved \o evaluated.resolved])
                 IN appended(yui_expr_eval_to_string(SubSeq(tmpl, at + 2, end - 1),
                                                     resolver_ctx, out_len - Len(acc.out)))
    ELSE yui_format_text_from(tmpl, at + 1, resolver_ctx, out_len,
                              [acc EXCEPT !.out = @ \o CharAt(tmpl, at)])

\* yui_expr_collect_identifiers: the identifiers handed to cb, in order, and
\* the status
RECURSIVE yui_expr_collect_identifiers_from(_, _, _)
yui_expr_collect_identifiers_from(expression, cursor, found) ==
    LET token == yui_expr_lexer_next_token(expression, cursor)
    IN IF token.type = "ERROR" THEN [err |-> ESP_ERR_INVALID_ARG, identifiers |-> found]
       ELSE IF token.type = "EOF" THEN [err |-> ESP_OK, identifiers |-> found]
       ELSE yui_expr_collect_identifiers_from(
                expression, token.cursor,
                IF token.type = "IDENTIFIER" THEN Append(found, token.text) ELSE found)
yui_expr_collect_identifiers(expression) ==
    yui_expr_collect_identifiers_from(expression, 1, <<>>)

----
(* lvgl_yaml_gui.c: text templates, props and bindings *)

\* yui_is_valid_token
yui_is_valid_token(token) ==
    /\ token # ""
    /\ \A n \in 1..Len(token) :
          isalnum(CharAt(token, n)) \/ CharAt(token, n) \in {"_", "-", "."}

\* a string without the blanks around it (yui_trim_inplace, and the two
\* loops of yui_collect_bindings_from_text and of yui_eval_arg)
RECURSIVE Trimmed(_)
Trimmed(str) ==
    IF str = "" THEN ""
    ELSE IF isspace(Head(str)) THEN Trimmed(Tail(str))
    ELSE IF isspace(CharAt(str, Len(str))) THEN Trimmed(SubSeq(str, 1, Len(str) - 1))
    ELSE str

\* yui_collect_bindings_from_text of lvgl_yaml_gui.c: the spans whose whole
\* trimmed content is a valid token, one token per span, in order
RECURSIVE yui_collect_bindings_from(_, _, _)
yui_collect_bindings_from(text, cursor, tokens) ==
    LET open == FindPair(text, cursor, "{{")
        close == IF open = 0 THEN 0 ELSE FindPair(text, open + 2, "}}")
        token == Trimmed(SubSeq(text, open + 2, close - 1))
    IN IF open = 0 \/ close = 0 THEN tokens
       ELSE yui_collect_bindings_from(text, close + 2,
                IF yui_is_valid_token(token) THEN Append(tokens, token) ELSE tokens)
yui_collect_bindings_from_text(text) == yui_collect_bindings_from(text, 1, <<>>)

\* yml_node_get_child and yml_node_get_scalar on the node of an instance:
\* the scalar of the first child with the key, as a list of at most one
NodeScalar(instance_node, key) ==
    LET found == SelectSeq(instance_node, LAMBDA child : child.key = key)
    IN IF found = <<>> THEN <<>> ELSE <<found[1].value>>

\* yui_scope_create: the props of the component with the values the
\* instance gives them, "" for a prop the instance leaves out
yui_scope_props(component, instance_node) ==
    [i \in 1..Len(component) |->
        LET scalar == NodeScalar(instance_node, component[i])
            template_value == IF scalar = <<>> THEN "" ELSE scalar[1]
        IN [name |-> component[i],
            template_value |-> template_value,
            dependencies |-> yui_collect_bindings_from_text(template_value)]]

\* yui_scope_create for a component with props
yui_scope_create_props(table, parent, component, instance_node) ==
    yui_scope_acquire(Append(table, [parent |-> parent, ref_count |-> 1, destroyed |-> 0,
                                     props |-> yui_scope_props(component, instance_node)]),
                      parent)

\* yui_expression_ctx_t with what the resolver reads through it
ExpressionCtx(scope, table, entries) ==
    [scope |-> scope, scopes |-> table, entries |-> entries]

\* yui_widget_bind_text: the keys handed to yui_widget_watch_state, in order:
\* for a binding that names a prop of the scope chain the dependencies of
\* the prop, for any other binding the binding itself
RECURSIVE watched_keys(_, _, _)
watched_keys(table, scope, bindings) ==
    IF bindings = <<>> THEN <<>>
    ELSE LET prop == yui_scope_find_prop(table, scope, Head(bindings))
         IN (IF prop # <<>> THEN prop[1].dependencies ELSE <<Head(bindings)>>)
            \o watched_keys(table, scope, Tail(bindings))

\* struct yui_widget_runtime of a label with its text; first is the text
\* yui_widget_bind_text gave it, callbacks counts the calls of
\* yui_widget_state_cb, resolved lists the symbols the last
\* yui_widget_refresh_text handed to the resolver, clicks counts the clicks
\* of the button since it was bound and sets is 1 once the application has
\* set a value since then
NoLabel ==
    [live |-> FALSE, obj |-> 0, scope |-> 0, watch_handles |-> <<>>, err |-> ESP_OK,
     text_template |-> "", bindings |-> <<>>, text |-> "", first |-> "", callbacks |-> 0,
     resolved |-> <<>>, clicks |-> 0, sets |-> 0]

\* yui_widget_refresh_text: lv_label_set_text with the formatted template
yui_widget_refresh_text(runtime, table, entries) ==
    LET shown(formatted) ==
            [runtime EXCEPT !.text = formatted.out, !.resolved = formatted.resolved]
    IN shown(yui_format_text(runtime.text_template,
                             ExpressionCtx(runtime.scope, table, entries),
                             YUI_TEXT_BUFFER_MAX))

----
(* yamui_events.c: the set action of a handler *)

\* yamui_events.c: YUI_ACTION_MAX_ARGS
YUI_ACTION_MAX_ARGS == 3

\* yui_strip_quotes
yui_strip_quotes(text) ==
    IF /\ Len(text) >= 2
       /\ \/ (Head(text) = "\"" /\ CharAt(text, Len(text)) = "\"")
          \/ (Head(text) = "'" /\ CharAt(text, Len(text)) = "'")
    THEN SubSeq(text, 2, Len(text) - 1)
    ELSE text

\* yui_collect_args: the argument that ends before the cursor is kept when
\* it is not blank and there is room for it
collected_arg(text, st, cursor) ==
    LET trimmed == Trimmed(SubSeq(text, st.token_start, cursor - 1))
    IN IF trimmed # "" /\ Len(st.args) < YUI_ACTION_MAX_ARGS
       THEN Append(st.args, yui_strip_quotes(trimmed))
       ELSE st.args

\* yui_collect_args: the loop over the characters of the argument block
RECURSIVE yui_collect_args_from(_, _, _)
yui_collect_args_from(text, cursor, st) ==
    LET ch == CharAt(text, cursor)
        next(changed) == yui_collect_args_from(text, cursor + 1, changed)
    IN IF ch = "" THEN collected_arg(text, st, cursor)
       ELSE IF ch \in {"\"", "'"} /\ (cursor = 1 \/ CharAt(text, cursor - 1) # "\\")
       THEN IF st.in_quotes /\ st.quote_char = ch
            THEN next([st EXCEPT !.in_quotes = FALSE, !.quote_char = ""])
            ELSE IF ~st.in_quotes
            THEN next([st EXCEPT !.in_quotes = TRUE, !.quote_char = ch])
            ELSE next(st)
       ELSE IF st.in_quotes THEN next(st)
       ELSE IF ch = "{" /\ CharAt(text, cursor + 1) = "{"
       THEN next([st EXCEPT !.brace_depth = @ + 1])
       ELSE IF ch = "}" /\ CharAt(text, cursor + 1) = "}" /\ st.brace_depth > 0
       THEN next([st EXCEPT !.brace_depth = @ - 1])
       ELSE IF ch = "," /\ st.brace_depth = 0
       THEN next([st EXCEPT !.args = collected_arg(text, st, cursor),
                            !.token_start = cursor + 1])
       ELSE next(st)

\* yui_collect_args
yui_collect_args(text) ==
    yui_collect_args_from(text, 1, [token_start |-> 1, in_quotes |-> FALSE, quote_char |-> "",
                                    brace_depth |-> 0, args |-> <<>>])

\* strrchr: position of the last occurrence of a character, 0 when absent
LastIndexOf(s, c) ==
    IF \E n \in 1..Len(s) : SubSeq(s, n, n) = c
    THEN CHOOSE n \in 1..Len(s) :
            SubSeq(s, n, n) = c /\ \A m \in (n + 1)..Len(s) : SubSeq(s, m, m) # c
    ELSE 0

\* yui_action_type_from_name
yui_action_type_from_name(name) ==
    IF \E known \in {"set", "goto", "push", "pop", "modal", "close_modal", "call", "emit"} :
          strcaseeq(name, known)
    THEN CHOOSE known \in {"set", "goto", "push", "pop", "modal", "close_modal", "call", "emit"} :
            strcaseeq(name, known)
    ELSE "invalid"

\* yui_action_parse_text: the type and the arguments of name(arg0, arg1, arg2)
yui_action_parse_text(text) ==
    LET trimmed == Trimmed(text)
        paren == IndexOf(trimmed, "(")
        name == IF paren > 0 THEN SubSeq(trimmed, 1, paren - 1) ELSE trimmed
        block == IF paren > 0 THEN SubSeq(trimmed, paren + 1, Len(trimmed)) ELSE ""
        close == LastIndexOf(block, ")")
        arg_block == IF close > 0 THEN SubSeq(block, 1, close - 1) ELSE block
    IN [type |-> IF trimmed = "" THEN "invalid" ELSE yui_action_type_from_name(name),
        args |-> IF paren > 0 THEN yui_collect_args(arg_block) ELSE <<>>]

\* yui_event_symbol_resolver for the click of a button: value is the
\* parameter of the event, which a click does not have, and checked the
\* LV_STATE_CHECKED of a button that is not checkable; any other symbol is
\* the name of a prop or of a key of the store
yui_event_symbol_resolver(symbol, resolver_ctx) ==
    IF symbol = "value" THEN ""
    ELSE IF symbol = "checked" THEN "false"
    ELSE LET value_of(prop) ==
                 IF prop.found THEN prop.value
                 ELSE yui_state_get(resolver_ctx.entries, symbol, "")
         IN value_of(IF resolver_ctx.scope # 0
                     THEN yui_scope_resolve_prop(resolver_ctx, symbol)
                     ELSE [found |-> FALSE, value |-> ""])

\* yui_eval_arg: an argument that is one whole {{ }} wrapper is handed to
\* the resolver without its braces, any other argument is returned as it is
yui_eval_arg(arg, resolver_ctx) ==
    LET trimmed == Trimmed(arg)
    IN IF Len(arg) < 4 THEN arg
       ELSE IF /\ Len(trimmed) >= 4
               /\ SubSeq(trimmed, 1, 2) = "{{"
               /\ SubSeq(trimmed, Len(trimmed) - 1, Len(trimmed)) = "}}"
       THEN yui_event_symbol_resolver(SubSeq(trimmed, 3, Len(trimmed) - 2), resolver_ctx)
       ELSE arg

\* yui_execute_set: the key and the value handed to yui_state_set, with the
\* status when there is no key
yui_execute_set(action, resolver_ctx) ==
    IF action.args = <<>> THEN [err |-> ESP_ERR_INVALID_ARG, key |-> "", value |-> ""]
    ELSE LET result(key, value) ==
                 [err |-> IF key = "" THEN ESP_ERR_INVALID_ARG ELSE ESP_OK,
                  key |-> key, value |-> value]
         IN result(yui_eval_arg(action.args[1], resolver_ctx),
                   IF Len(action.args) > 1 THEN yui_eval_arg(action.args[2], resolver_ctx)
                   ELSE "")

----
(* labels bound to the store *)

\* component definitions with the node of one instance of each: a component
\* without props, one whose instance gives a prop the text of a key and one
\* whose instance gives one prop a literal and another the text of that name
Instances ==
    { [component |-> <<>>, node |-> <<>>],
      [component |-> <<"p">>, node |-> <<[key |-> "p", value |-> "{{count}}"]>>],
      [component |-> <<"p", "a">>,
       node |-> <<[key |-> "p", value |-> "{{a}}"], [key |-> "a", value |-> "lit"]>>] }

\* the text of the label of a document without components
LabelTexts == { "{{count}}", "{{count}} {{count}}", "{{count + 1}}", "n={{a}}" }

\* the text of a label inside component instances
PropTexts == { "{{a}}", "{{p}}", "{{count}}" }

\* the on_click handler of the button of the document
OnClick == "set(count, {{count}} + 1)"

\* the state section of the document, seeded into the store when it is loaded
SeededStates ==
    { <<>>,
      <<[key |-> "count", value |-> "0"]>>,
      <<[key |-> "count", value |-> "0"], [key |-> "a", value |-> "1"]>>,
      <<[key |-> "a", value |-> "0"], [key |-> "count", value |-> "1"]>> }

\* yui_render_component_instance under the object p (0: the screen) for a
\* component with props
render_component_props(p, instance) ==
    /\ deleting = <<>>
    /\ p = 0 \/ (p \in 1..Len(objs) /\ objs[p].live /\ objs[p].scope # 0)
    /\ Len(LiveObjs) < MaxObjs /\ Len(LiveScopes) < MaxScopes
    /\ scopes' = yui_scope_create_props(LiveScopes, ScopeOf(LiveObjs, p),
                                        instance.component, instance.node)
    /\ objs' = Append(LiveObjs, [parent |-> p, live |-> TRUE,
                                 scope |-> Len(LiveScopes) + 1, runtime |-> NULL])
    /\ UNCHANGED <<runtimes, deleting, s_watchers, s_watch_next_id, registered>>
    /\ UnchangedValues /\ UnchangedNav /\ UnchangedThreads

\* yui_render_widget for a label with a text under the object p:
\* yui_widget_runtime_create and yui_widget_bind_text, which collects the
\* bindings, watches their keys and formats the text
render_label(p, ctx, text) ==
    /\ deleting = <<>>
    /\ p = 0 \/ (p \in 1..Len(objs) /\ objs[p].live /\ objs[p].scope # 0)
    /\ ~runtimes[ctx].live
    /\ Len(LiveObjs) < MaxObjs
    /\ LET scope == ScopeOf(LiveObjs, p)
           table == yui_scope_acquire(LiveScopes, scope)
           bindings == yui_collect_bindings_from_text(text)
           keys == watched_keys(table, scope, bindings)
           bound == bind_text([watchers |-> s_watchers, order |-> registered,
                               next_id |-> s_watch_next_id, handles |-> <<>>],
                              keys, ctx)
           first_text(runtime) == [runtime EXCEPT !.first = runtime.text]
           runtime == yui_widget_refresh_text(
                          [NoLabel EXCEPT !.live = TRUE, !.obj = Len(LiveObjs) + 1,
                                          !.scope = scope, !.watch_handles = bound.handles,
                                          !.text_template = text, !.bindings = bindings],
                          table, s_entries)
       IN /\ Len(s_watchers) + Len(keys) <= MaxWatch
          /\ s_watch_next_id + Len(keys) <= MaxWatchId
          /\ s_watchers' = bound.watchers
          /\ registered' = bound.order
          /\ s_watch_next_id' = bound.next_id
          /\ scopes' = table
          /\ runtimes' = [runtimes EXCEPT ![ctx] = first_text(runtime)]
    /\ objs' = Append(LiveObjs, [parent |-> p, live |-> TRUE, scope |-> 0, runtime |-> ctx])
    /\ UNCHANGED deleting
    /\ UnchangedValues /\ UnchangedNav /\ UnchangedThreads

\* yui_widget_state_cb for every notification of a set, in the order of the
\* notifications: each refreshes the text of the label it was registered with
RECURSIVE notify_labels(_, _, _, _)
notify_labels(table, callbacks, scope_table, entries) ==
    IF callbacks = <<>> THEN table
    ELSE LET ctx == Head(callbacks).ctx
         IN notify_labels(
                IF ctx \in DOMAIN table /\ table[ctx].live
                THEN [table EXCEPT ![ctx] =
                        [yui_widget_refresh_text(@, scope_table, entries)
                            EXCEPT !.callbacks = @ + 1]]
                ELSE table,
                Tail(callbacks), scope_table, entries)

\* the labels after a call of yui_state_set made by a click or by the
\* application
counted(table, click) ==
    [ctx \in DOMAIN table |->
        IF ~table[ctx].live THEN table[ctx]
        ELSE IF click THEN [table[ctx] EXCEPT !.clicks = @ + 1]
        ELSE [table[ctx] EXCEPT !.sets = 1]]

\* yui_state_set(key, value) with the callbacks of the labels it notifies
set_and_notify(key, value, click) ==
    /\ deleting = <<>>
    /\ \A ctx \in Contexts : runtimes[ctx].callbacks < MaxRefresh
    /\ yui_state_set_internal(key, value, TRUE)
    /\ prev_call' = PrevCall(key, value)
    /\ runtimes' = counted(notify_labels(runtimes, notified', scopes, s_entries'), click)
    /\ UNCHANGED <<s_watchers, s_watch_next_id, registered, objs, scopes, deleting>>
    /\ UnchangedNav /\ UnchangedThreads

\* the application sets a value
label_state_set(key, value) == set_and_notify(key, value, FALSE)

\* LV_EVENT_CLICKED on a button of the scope with the handler:
\* yui_widget_event_cb, yui_action_list_execute and yui_execute_set
button_clicked(scope, handler) ==
    /\ scope \in 0..Len(scopes)
    /\ scope # 0 => scopes[scope].ref_count > 0
    /\ \A ctx \in Contexts : runtimes[ctx].clicks < MaxClicks
    /\ LET execute(action, set) ==
               /\ action.type = "set"
               /\ set.err = ESP_OK
               /\ set_and_notify(set.key, set.value, TRUE)
           parsed(action) ==
               execute(action, yui_execute_set(action, ExpressionCtx(scope, scopes, s_entries)))
       IN parsed(yui_action_parse_text(handler))

\* the screen shows its label: its widgets are built, events are delivered
Shown == runtimes["w1"].live

----
InitStore ==
    /\ s_entries = <<>>
    /\ s_watchers = <<>>
    /\ s_watch_next_id = 1
    /\ notified = <<>>
    /\ state_call = NoStateCall
    /\ prev_call = NoStateCall
    /\ registered = <<>>

\* no store call in progress
NoCalls ==
    /\ tstack = [t \in {"ui", "task"} |-> <<>>]
    /\ dangling = FALSE

\* before yui_state_init
InitUnlocked ==
    /\ NoCalls
    /\ s_lock = 0
    /\ mutexes = <<>>

\* after yui_state_init
yui_state_init ==
    /\ NoCalls
    /\ s_lock = 1
    /\ mutexes = <<[owner |-> NULL, count |-> 0]>>

InitWidgets ==
    /\ objs = <<>>
    /\ scopes = <<>>
    /\ runtimes = [ctx \in Contexts |-> NoRuntime]
    /\ deleting = <<>>

InitNav ==
    /\ s_executor = "none"
    /\ s_queue = <<>>
    /\ s_rendering = FALSE
    /\ s_loaded_schema = FALSE
    /\ s_nav_stack = <<>>
    /\ s_modal_stack = <<>>
    /\ screen_shown = "none"
    /\ stack = <<>>
    /\ ret = ESP_OK
    /\ s_call_count = 0
    /\ last_call = NoCall
    /\ enq = <<>>
    /\ deq = <<>>
    /\ modal_deleted = <<>>
    /\ last = "init"

Init ==
    /\ program \in {"test", "app"}
    /\ schema \in Schemas
    /\ program = "test" => schema = [home |-> <<>>, details |-> <<>>]
    /\ InitNav
    /\ yaml = NoBuffer
    /\ InitStore
    /\ InitWidgets
    /\ InitUnlocked

Next ==
    \/ nav_queue_test_reset
    \/ \E request \in TestRequests : TestSubmit(request)
    \/ TestBeginRender
    \/ \E success \in BOOLEAN : TestEndRender(success)
    \/ TestQueueReset
    \/ nav_queue_executor
    \/ SubmitReturn
    \/ ProcessEntry
    \/ ProcessAfterExecutor
    \/ lvgl_yaml_gui_load_default
    \/ \E list \in Handlers : yui_widget_event_cb(list)
    \/ yui_navigation_execute_request
    \/ RenderCurrentEntry
    \/ RenderScreenTeardown
    \/ \E ok \in BOOLEAN : RenderScreenBuild(ok)
    \/ RenderCurrentEndRender
    \/ RenderCurrentReturn
    \/ ActionListLoop
    \/ ActionListAfterAction

Spec == Init /\ [][Next]_vars

InitState ==
    /\ program = "app"
    /\ schema = [home |-> <<>>, details |-> <<>>]
    /\ InitNav
    /\ yaml = NoBuffer
    /\ InitStore
    /\ InitWidgets
    /\ InitUnlocked

NextState ==
    \/ \E key \in Keys \cup {NULL}, value \in Values \cup {NULL} : yui_state_set(key, value)
    \/ \E key \in Keys \cup {""} :
            Len(s_watchers) < MaxWatch /\ yui_state_watch(key, "w1")
    \/ \E handle \in {0} \cup { s_watchers[n].id : n \in 1..Len(s_watchers) } :
            yui_state_unwatch(handle)
    \/ yui_state_clear

SpecState == InitState /\ [][NextState]_vars

\* the watcher table alone: one key, watchers registered and removed in any order
NextWatch ==
    \/ \E value \in Values : yui_state_set("a", value)
    \/ \E ctx \in Contexts : Len(s_watchers) < MaxOrdered /\ yui_state_watch("a", ctx)
    \/ \E handle \in 0..MaxWatchId : yui_state_unwatch(handle)

SpecWatch == InitState /\ [][NextWatch]_vars

\* seeding a store that holds values and has a watcher of every key
NextSeed ==
    \/ \E seeds \in Seeds : yui_state_seed(seeds)
    \/ \E state_node \in Seeds : yui_state_seed_from_yaml(state_node)
    \/ \E key \in Keys, value \in Values : yui_state_set(key, value)
    \/ \E key \in Keys \cup {""} : s_watchers = <<>> /\ yui_state_watch(key, "w1")
    \/ yui_state_clear

SpecSeed == InitState /\ [][NextSeed]_vars

\* the UI thread building and deleting widgets
NextWidgets ==
    \/ \E p \in 0..MaxObjs, ok \in BOOLEAN : yui_render_component_instance(p, ok)
    \/ \E p \in 0..MaxObjs, ctx \in Contexts, text \in Templates, count \in 0..2 :
            yui_render_widget(p, ctx, text, count)
    \/ \E o \in 1..MaxObjs : lv_obj_del(o)
    \/ lv_obj_clean
    \/ lv_event_delete

SpecWidgets == InitState /\ [][NextWidgets]_vars

\* one step of a thread inside yui_state_set
ThreadStep(t) ==
    \/ yui_state_ensure_mutex(t)
    \/ yui_state_lock(t)
    \/ set_find_index(t)
    \/ set_commit(t)
    \/ set_notify(t)
    \/ yui_widget_state_cb(t)
    \/ thread_return(t)

\* two threads setting values while the UI thread builds and deletes widgets
NextThreads ==
    \/ \E t \in Threads, value \in Values : thread_set(t, "a", value)
    \/ \E t \in Threads : ThreadStep(t)
    \/ \E key \in Keys : ui_render_widget("w1", key)
    \/ ui_obj_clean
    \/ ui_event_delete

\* the store used whether or not yui_state_init was called
InitThreads ==
    /\ program = "app"
    /\ schema = [home |-> <<>>, details |-> <<>>]
    /\ InitNav
    /\ yaml = NoBuffer
    /\ InitStore
    /\ InitWidgets
    /\ InitUnlocked \/ yui_state_init

SpecThreads == InitThreads /\ [][NextThreads]_vars

\* the same with a watcher of the application whose callback sets a value
NextReentrant ==
    \/ NextThreads
    \/ \E t \in Threads : app_state_cb(t)
    \/ app_watch

\* the store used after yui_state_init, which yaml_ui.c calls for a schema
\* with a state section
InitInitialised ==
    /\ program = "app"
    /\ schema = [home |-> <<>>, details |-> <<>>]
    /\ InitNav
    /\ yaml = NoBuffer
    /\ InitStore
    /\ InitWidgets
    /\ yui_state_init

SpecReentrant == InitInitialised /\ [][NextReentrant]_vars

\* the document is loaded and its state section seeded, nothing is rendered
InitLabels ==
    /\ program = "app"
    /\ schema = [home |-> <<>>, details |-> <<>>]
    /\ InitNav
    /\ yaml = NoBuffer
    /\ s_entries \in SeededStates
    /\ s_watchers = <<>>
    /\ s_watch_next_id = 1
    /\ notified = <<>>
    /\ state_call = NoStateCall
    /\ prev_call = NoStateCall
    /\ registered = <<>>
    /\ objs = <<>>
    /\ scopes = <<>>
    /\ runtimes = [ctx \in Contexts |-> NoLabel]
    /\ deleting = <<>>
    /\ yui_state_init

\* the label of the screen is rendered, then the application sets values
\* and the button is clicked
NextLabels ==
    \/ \E text \in LabelTexts : render_label(0, "w1", text)
    \/ \E key \in {"count", "a"}, value \in Values : Shown /\ label_state_set(key, value)
    \/ Shown /\ button_clicked(0, OnClick)

SpecLabels == InitLabels /\ [][NextLabels]_vars

\* component instances are rendered one inside the other, then a label
\* inside them, then the application sets values
NextProps ==
    \/ \E p \in 0..MaxObjs, instance \in Instances :
            ~Shown /\ render_component_props(p, instance)
    \/ \E p \in 0..MaxObjs, text \in PropTexts : render_label(p, "w1", text)
    \/ \E key \in {"count", "a"}, value \in Values : Shown /\ label_state_set(key, value)

SpecProps == InitLabels /\ [][NextProps]_vars

\* the text of a label made of literal text and of spans
RECURSIVE TextOf(_)
TextOf(segments) ==
    IF segments = <<>> THEN ""
    ELSE (IF Head(segments).span THEN "{{" \o Head(segments).text \o "}}"
          ELSE Head(segments).text) \o TextOf(Tail(segments))

\* expressions that fail: a division by zero, an operator without its
\* operand, a character that starts no token, a parenthesis left open
FailingExprs == { "1/0", "a +", "a = b", "(a" }

\* expressions that evaluate, or fail when b is zero
OtherExprs == { "a", "a + 1", "2 * 3", "6 / b" }

\* labels made of a literal, a span, a literal and a span
SpanSegments ==
    { << [span |-> FALSE, text |-> l1], [span |-> TRUE, text |-> e1],
         [span |-> FALSE, text |-> "|"], [span |-> TRUE, text |-> e2] >> :
        l1 \in {"", "n="}, e1 \in FailingExprs \cup OtherExprs, e2 \in FailingExprs \cup OtherExprs }

\* the two branches of an expression whose operands are two symbols
Branches == { <<"b", "c">>, <<"c", "b">>, <<"b", "a">> }

\* cond ? t : f as the one span of a label
TernaryText(cond, branches) ==
    "{{" \o cond \o " ? " \o branches[1] \o " : " \o branches[2] \o "}}"
Conditions == { "a", "true", "false", "a == 1" }

\* l ?? r as the one span of a label
CoalesceText(branches) == "{{" \o branches[1] \o " ?? " \o branches[2] \o "}}"

\* the text of the labels of the documents with expressions
ExprTexts ==
    { TextOf(segments) : segments \in SpanSegments }
    \cup { TernaryText(cond, branches) : cond \in Conditions, branches \in Branches }
    \cup { CoalesceText(branches) : branches \in Branches }

\* the application sets values, then a label with expressions is rendered
NextText ==
    \/ \E key \in {"a", "b"}, value \in {"", "0", "1"} :
            ~Shown /\ label_state_set(key, value)
    \/ \E text \in ExprTexts : render_label(0, "w1", text)

SpecText == InitLabels /\ [][NextText]_vars

----
(* loading a document *)

\* the blocks of a document as yui_schema_from_tree reads them: absent, a
\* mapping with children, a mapping without children, or a scalar
BlockKinds == { "absent", "mapping", "empty", "scalar" }

\* the documents home.yml can be: whether yaml_core_parse_buffer accepts the
\* text, the state block (no block, or a node that is a mapping or not, with
\* its children) and the kind of each other block
StateNodes ==
    { <<>>,
      << [mapping |-> FALSE, children |-> <<>>] >>,
      << [mapping |-> TRUE, children |-> <<[key |-> "count", value |-> "0"]>>] >>,
      << [mapping |-> TRUE, children |-> <<[key |-> "a", value |-> "1"],
                                          [key |-> "count", value |-> "0"]>>] >> }

Documents ==
    [ parses : BOOLEAN, state : StateNodes, layout : {"absent", "scalar"},
      styles : {"mapping", "scalar"}, sensor_templates : BlockKinds,
      components : {"absent", "scalar"} ]

\* ui_schemas.c: s_schema_blobs and s_default_schema_name
s_default_schema_name == "home"

\* ui_schemas_get_named: whether a blob has the name, "" standing for the
\* default name
ui_schemas_get_named(name) ==
    strcaseeq(IF name = "" THEN s_default_schema_name ELSE name, "home")

\* yui_parse_layout, yui_parse_styles and yui_parse_components: no block is
\* accepted, a block that is not a mapping is refused
yui_parse_optional(kind) ==
    IF kind \in {"absent", "mapping", "empty"} THEN ESP_OK ELSE ESP_ERR_INVALID_ARG

\* yui_parse_templates: the block must be a mapping with children
yui_parse_templates(kind) ==
    IF kind = "mapping" THEN ESP_OK ELSE ESP_ERR_INVALID_ARG

\* yui_schema_from_tree: the state block is seeded into the store first, then
\* the other blocks are parsed in order; err is the status returned and
\* entries the store the call leaves
yui_schema_from_tree(root, entries) ==
    LET seeded == IF root.state = <<>> \/ ~root.state[1].mapping THEN entries
                  ELSE seed_entries_from_yaml(entries, root.state[1].children)
        err == IF root.state # <<>> /\ ~root.state[1].mapping THEN ESP_ERR_INVALID_ARG
               ELSE IF yui_parse_optional(root.layout) # ESP_OK
                    THEN yui_parse_optional(root.layout)
               ELSE IF yui_parse_optional(root.styles) # ESP_OK
                    THEN yui_parse_optional(root.styles)
               ELSE IF root.sensor_templates = "absent" THEN ESP_ERR_INVALID_ARG
               ELSE IF yui_parse_templates(root.sensor_templates) # ESP_OK
                    THEN yui_parse_templates(root.sensor_templates)
               ELSE yui_parse_optional(root.components)
    IN [err |-> err, entries |-> seeded, seeds |-> root.state # <<>>]

\* yui_schema_runtime_load: the name of the schema it returns (NULL when it
\* returns none), the schema loaded afterwards and the store
schema_runtime_load(name, loaded, document, entries) ==
    IF loaded # NULL /\ strcaseeq(loaded, name)
    THEN [runtime |-> loaded, loaded |-> loaded, entries |-> entries, seeds |-> FALSE]
    ELSE IF ~ui_schemas_get_named(name) \/ ~document.parses
    THEN [runtime |-> NULL, loaded |-> loaded, entries |-> entries, seeds |-> FALSE]
    ELSE LET compiled == yui_schema_from_tree(document, entries)
         IN IF compiled.err # ESP_OK
            THEN [runtime |-> NULL, loaded |-> loaded, entries |-> compiled.entries,
                  seeds |-> compiled.seeds]
            ELSE [runtime |-> name, loaded |-> name, entries |-> compiled.entries,
                  seeds |-> compiled.seeds]

\* what a step of these specifications leaves alone
UnchangedByLoad ==
    UNCHANGED <<program, s_executor, s_queue, s_rendering, s_nav_stack, s_modal_stack,
                screen_shown, stack, s_call_count, last_call, enq, deq, modal_deleted,
                s_watchers, s_watch_next_id, registered, widgetVars, threadVars, yaml>>

\* yui_schema_runtime_load(name) with the document built into the firmware
yui_schema_runtime_load(name) ==
    LET load == schema_runtime_load(name, schema.name, schema.document, s_entries)
    IN /\ s_entries' = load.entries
       /\ schema' = [schema EXCEPT !.name = load.loaded]
       /\ s_loaded_schema' = (load.loaded # NULL)
       /\ ret' = load.runtime
       /\ last' = "schema_load"
       /\ notified' = <<>>
       /\ state_call' = IF load.seeds
                        THEN StateCall("seed_from_yaml", NULL, NULL, ESP_OK, FALSE, 0, 0)
                        ELSE state_call
       /\ prev_call' = NoStateCall
       /\ UnchangedByLoad

\* the application sets a value of the store
app_state_set(key, value) ==
    /\ yui_state_set_internal(key, value, TRUE)
    /\ prev_call' = PrevCall(key, value)
    /\ last' = "state_set"
    /\ UNCHANGED <<schema, s_loaded_schema, ret>>
    /\ UnchangedByLoad

InitLoad ==
    /\ program = "app"
    /\ InitNav
    /\ yaml = NoBuffer
    /\ schema \in { [document |-> document, name |-> NULL] : document \in Documents }
    /\ InitStore
    /\ InitWidgets
    /\ yui_state_init

NextLoad ==
    \/ yui_schema_runtime_load(s_default_schema_name)
    \/ \E key \in {"count", "a"}, value \in {"0", "5"} : app_state_set(key, value)

SpecLoad == InitLoad /\ [][NextLoad]_vars

----
(* yaml_core.c *)

ESP_ERR_INVALID_RESPONSE == "ESP_ERR_INVALID_RESPONSE"

YML_MAX_STACK_DEPTH == 32

\* yml_trim: the white space at both ends is removed, then one pair of
\* enclosing quotes of the same kind
yml_trim(str) ==
    LET unquoted(bare) ==
            IF Len(bare) >= 2
               /\ \/ (Head(bare) = "\"" /\ CharAt(bare, Len(bare)) = "\"")
                  \/ (Head(bare) = "'" /\ CharAt(bare, Len(bare)) = "'")
            THEN SubSeq(bare, 2, Len(bare) - 1)
            ELSE bare
    IN unquoted(Trimmed(str))

\* the scan of yml_find_unquoted_colon and of the comment search of
\* yml_next_line: the position of the first mark outside quotes from position
\* at on, 0 when there is none; quote is the open quote character or ""
RECURSIVE yml_find_unquoted(_, _, _, _)
yml_find_unquoted(str, mark, at, quote) ==
    IF at > Len(str) THEN 0
    ELSE IF CharAt(str, at) \in {"\"", "'"} /\ (at = 1 \/ CharAt(str, at - 1) # "\\")
    THEN yml_find_unquoted(str, mark, at + 1,
                           IF quote = CharAt(str, at) THEN ""
                           ELSE IF quote = "" THEN CharAt(str, at)
                           ELSE quote)
    ELSE IF CharAt(str, at) = mark /\ quote = "" THEN at
    ELSE yml_find_unquoted(str, mark, at + 1, quote)

\* yml_find_unquoted_colon
yml_find_unquoted_colon(str) == yml_find_unquoted(str, ":", 1, "")

\* yml_next_line: the number of leading spaces of a line
RECURSIVE yml_leading_spaces(_)
yml_leading_spaces(text) ==
    IF text # "" /\ Head(text) = " " THEN 1 + yml_leading_spaces(Tail(text)) ELSE 0

\* yml_line_t; kind tells a line from a line that is skipped and from an error
yml_line(kind, err, indent, is_sequence, has_colon, key, value) ==
    [kind |-> kind, err |-> err, indent |-> indent, is_sequence |-> is_sequence,
     has_colon |-> has_colon, key |-> key, value |-> value]

yml_skipped == yml_line("skip", ESP_OK, 0, FALSE, FALSE, NULL, NULL)
yml_refused(err) == yml_line("error", err, 0, FALSE, FALSE, NULL, NULL)

\* yml_next_line: an empty string stands for no value (value = NULL)
yml_value(text) ==
    LET value(trimmed) == IF trimmed = "" THEN NULL ELSE trimmed
    IN value(yml_trim(text))

\* yml_next_line: the payload of a line split at the first unquoted colon
yml_split(indent, is_sequence, payload) ==
    LET split(colon) ==
            IF colon > 0
            THEN yml_line("line", ESP_OK, indent, is_sequence, TRUE,
                          yml_trim(SubSeq(payload, 1, colon - 1)),
                          yml_value(SubSeq(payload, colon + 1, Len(payload))))
            ELSE IF ~is_sequence THEN yml_refused(ESP_ERR_INVALID_RESPONSE)
            ELSE yml_line("line", ESP_OK, indent, is_sequence, FALSE, NULL,
                          yml_value(payload))
    IN split(yml_find_unquoted_colon(payload))

\* yml_next_line: the content of a line after its indentation, the comment
\* removed and trimmed
yml_content(indent, content) ==
    IF content = "" THEN yml_skipped
    ELSE IF Head(content) = "-" /\ (Len(content) = 1 \/ isspace(CharAt(content, 2)))
    THEN yml_split(indent, TRUE, Trimmed(Tail(content)))
    ELSE yml_split(indent, FALSE, content)

\* yml_next_line for one line of the buffer (the text between two line ends)
yml_next_line(text) ==
    LET scan(indent, rest) ==
            IF rest = "" THEN yml_skipped
            ELSE IF Head(rest) = "\t" THEN yml_refused(ESP_ERR_INVALID_RESPONSE)
            ELSE LET uncommented(hash) ==
                         yml_content(indent,
                                     yml_trim(IF hash > 0 THEN SubSeq(rest, 1, hash - 1)
                                              ELSE rest))
                 IN uncommented(yml_find_unquoted(rest, "#", 1, ""))
        indented(indent) == scan(indent, SubSeq(text, indent + 1, Len(text)))
    IN indented(yml_leading_spaces(text))

\* struct yml_node: the children of a node are the nodes that name it as
\* parent, in the order of the array; indent is the indentation of the line
\* that created the node, or the column of the key that follows the dash of
\* a sequence entry (not a field of the struct)
yml_node_create(type, key, scalar, parent, indent) ==
    [type |-> type, key |-> key, scalar |-> scalar, parent |-> parent, indent |-> indent]

\* yml_stack_entry_t
yml_stack_entry(node, indent) == [node |-> node, indent |-> indent]

\* the result of processing a line: the status, the tree and the stack
yml_processed(err, nodes, blocks) == [err |-> err, nodes |-> nodes, stack |-> blocks]

\* the parent of a line takes the type of its first child
yml_parent_typed(nodes, parent, type) ==
    IF nodes[parent].type = "UNSET" THEN [nodes EXCEPT ![parent].type = type] ELSE nodes

\* stack[*depth] = entry; (*depth)++, refused at YML_MAX_STACK_DEPTH
yml_pushed(nodes, blocks, node, indent) ==
    IF Len(blocks) >= YML_MAX_STACK_DEPTH
    THEN yml_processed(ESP_ERR_INVALID_RESPONSE, nodes, blocks)
    ELSE yml_processed(ESP_OK, nodes, Append(blocks, yml_stack_entry(node, indent)))

\* yml_process_sequence_line
yml_process_sequence_line(line, nodes, blocks) ==
    LET parent == blocks[Len(blocks)].node
        typed == yml_parent_typed(nodes, parent, "SEQUENCE")
        entry == Len(nodes) + 1
    IN IF typed[parent].type # "SEQUENCE"
       THEN yml_processed(ESP_ERR_INVALID_RESPONSE, typed, blocks)
       ELSE IF line.has_colon /\ line.key # NULL
       THEN yml_pushed(typed
                       \o << yml_node_create("MAPPING", NULL, NULL, parent, line.indent),
                             yml_node_create(IF line.value # NULL THEN "SCALAR" ELSE "UNSET",
                                             line.key, line.value, entry,
                                             line.indent + 2) >>,
                       blocks, entry, line.indent)
       ELSE IF line.value # NULL
       THEN yml_processed(ESP_OK,
                          Append(typed, yml_node_create("SCALAR", NULL, line.value, parent,
                                                        line.indent)),
                          blocks)
       ELSE yml_pushed(Append(typed, yml_node_create("UNSET", NULL, NULL, parent,
                                                     line.indent)),
                       blocks, entry, line.indent)

\* yml_process_mapping_line
yml_process_mapping_line(line, nodes, blocks) ==
    LET parent == blocks[Len(blocks)].node
        typed == yml_parent_typed(nodes, parent, "MAPPING")
    IN IF line.key = NULL THEN yml_processed(ESP_ERR_INVALID_RESPONSE, nodes, blocks)
       ELSE IF typed[parent].type # "MAPPING"
       THEN yml_processed(ESP_ERR_INVALID_RESPONSE, typed, blocks)
       ELSE IF line.value # NULL
       THEN yml_processed(ESP_OK,
                          Append(typed, yml_node_create("SCALAR", line.key, line.value,
                                                        parent, line.indent)),
                          blocks)
       ELSE yml_pushed(Append(typed, yml_node_create("UNSET", line.key, NULL, parent,
                                                     line.indent)),
                       blocks, Len(nodes) + 1, line.indent)

\* an unwinding that also leaves the blocks whose line is indented two
\* columns less than the line
RECURSIVE yml_unwound_by_step(_, _)
yml_unwound_by_step(blocks, indent) ==
    IF blocks # <<>> /\ blocks[Len(blocks)].indent >= 0
       /\ indent <= blocks[Len(blocks)].indent + 2
    THEN yml_unwound_by_step(SubSeq(blocks, 1, Len(blocks) - 1), indent)
    ELSE blocks

\* yaml_core_parse_buffer: while (depth > 0 && line.indent <= stack[depth - 1].indent) depth--
RECURSIVE yml_unwound(_, _)
yml_unwound(blocks, indent) ==
    IF blocks # <<>> /\ indent <= blocks[Len(blocks)].indent
    THEN yml_unwound(SubSeq(blocks, 1, Len(blocks) - 1), indent)
    ELSE blocks

\* the local variables of yaml_core_parse_buffer: the lines of the buffer and
\* the line the cursor is at, the stack, the tree, and once the function has
\* returned (done) its status and whether *out_root was set; round counts the
\* buffers parsed and first is the tree of the first one
yml_parse_start(data, round, first) ==
    [data |-> data, cursor |-> 1,
     stack |-> << yml_stack_entry(1, -1) >>,
     nodes |-> << yml_node_create("MAPPING", NULL, NULL, 0, -1) >>,
     done |-> FALSE, err |-> ESP_OK, out_root |-> FALSE, round |-> round, first |-> first]

\* yaml_core_parse_buffer returns err: yml_node_free(root)
yml_parse_failed(state, err) ==
    [state EXCEPT !.done = TRUE, !.err = err, !.nodes = <<>>, !.stack = <<>>]

\* yaml_core_parse_buffer: one turn of the loop
yml_parse_line(state) ==
    IF state.cursor > Len(state.data)
    THEN [state EXCEPT !.done = TRUE, !.err = ESP_OK, !.out_root = TRUE]
    ELSE LET turn(line) ==
                 IF line.kind = "skip" THEN [state EXCEPT !.cursor = @ + 1]
                 ELSE IF line.kind = "error" THEN yml_parse_failed(state, line.err)
                 ELSE LET attach(blocks) ==
                              IF blocks = <<>>
                              THEN yml_parse_failed(state, ESP_ERR_INVALID_RESPONSE)
                              ELSE LET attached(processed) ==
                                           IF processed.err # ESP_OK
                                           THEN yml_parse_failed(state, processed.err)
                                           ELSE [state EXCEPT !.cursor = @ + 1,
                                                              !.nodes = processed.nodes,
                                                              !.stack = processed.stack]
                                   IN attached(IF line.is_sequence
                                               THEN yml_process_sequence_line(
                                                        line, state.nodes, blocks)
                                               ELSE yml_process_mapping_line(
                                                        line, state.nodes, blocks))
                      IN attach(yml_unwound(state.stack, line.indent))
         IN turn(yml_next_line(state.data[state.cursor]))

----
(* writing a tree back as text *)

\* the number of ancestors of a node
RECURSIVE yml_depth(_, _)
yml_depth(nodes, n) ==
    IF nodes[n].parent = 0 THEN 0 ELSE 1 + yml_depth(nodes, nodes[n].parent)

\* the line of a node: two spaces for every level below the root, then
\* "key:" under a mapping and "-" under a sequence, then the scalar in quotes
yml_emit_line(nodes, n) ==
    SubSeq("                ", 1, 2 * (yml_depth(nodes, n) - 1))
    \o (IF nodes[nodes[n].parent].type = "SEQUENCE" THEN "-" ELSE nodes[n].key \o ":")
    \o (IF nodes[n].type = "SCALAR" THEN " \"" \o nodes[n].scalar \o "\"" ELSE "")

\* the text of a tree: one line for every node but the root, in the order of
\* the tree
yml_emit(nodes) == [n \in 1..(Len(nodes) - 1) |-> yml_emit_line(nodes, n + 1)]

----
(* parsing documents *)

MaxLines == 3

\* the lines the documents are made of
YamlLines ==
    { "a:", "b: 1", "  c:", "  d: 'x' # two", "    e: 3", "    f:",
      "  - x", "  -", "  - k: v", "    - y", "  # note", "\tz: 1", "oops" }

YamlBuffers == UNION { [1..n -> YamlLines] : n \in 1..MaxLines }

\* yaml_core_parse_buffer(data, length, &root), a turn of its loop at a time
yaml_core_parse_buffer ==
    /\ ~yaml.done
    /\ yaml' = yml_parse_line(yaml)
    /\ UNCHANGED <<navVars, stateVars, widgetVars, threadVars>>

\* the tree of the first buffer is written back and yaml_core_parse_buffer is
\* called on the text
yaml_parse_again ==
    /\ yaml.done /\ yaml.out_root /\ yaml.round = 1
    /\ yaml' = yml_parse_start(yml_emit(yaml.nodes), 2, yaml.nodes)
    /\ UNCHANGED <<navVars, stateVars, widgetVars, threadVars>>

InitYaml ==
    /\ program = "app"
    /\ schema = [home |-> <<>>, details |-> <<>>]
    /\ InitNav
    /\ InitStore
    /\ InitWidgets
    /\ InitUnlocked
    /\ yaml \in { yml_parse_start(data, 1, <<>>) : data \in YamlBuffers }

NextYaml ==
    \/ yaml_core_parse_buffer
    \/ yaml_parse_again

SpecYaml == InitYaml /\ [][NextYaml]_vars

----
(* Properties *)

RECURSIVE Reverse(_)
Reverse(seq) == IF seq = <<>> THEN <<>> ELSE Append(Reverse(Tail(seq)), Head(seq))

SubmitSteps == {"submit_no_executor", "submit_execute", "submit_defer"}
ExecuteSteps == {"submit_execute", "process_execute"}
ExecutorEntered ==
    stack # <<>> /\ Top.fn \in {"execute_request", "nav_queue_executor"} /\ Top.pc = "entry"

\* frames of yui_navigation_render_current between begin_render and end_render
RenderDepth ==
    Cardinality({ n \in 1..Len(stack) :
                    /\ stack[n].fn = "render_current"
                    /\ stack[n].pc \in {"render_screen", "build", "end_render"} })

\* C1: the drain executes the deferred requests in submission order, each with
\* the type and argument it was submitted with: the requests popped so far
\* followed by the requests still queued are the requests submitted; a drain
\* that ends without a failed request leaves the queue empty.
C1_FifoDrain ==
    /\ deq \o s_queue = enq
    /\ last = "process_execute" =>
          /\ ExecutorEntered
          /\ Request(Top.type, Top.arg) = deq[Len(deq)]
          /\ Request(last_call.type, last_call.arg) = deq[Len(deq)]
    /\ (last \in {"process_done", "process_break"} /\ ret = ESP_OK) =>
          (s_queue = <<>> /\ deq = enq)

C1_Witness ==
    /\ last = "process_done"
    /\ Len(deq) >= 2
    /\ deq[1] # deq[2]
    /\ s_queue = <<>>

C3_SubmitWhenIdle ==
    /\ [][(~s_rendering /\ s_queue = <<>> /\ last' \in SubmitSteps) =>
             /\ last' = "submit_execute"
             /\ s_call_count' = s_call_count + 1
             /\ last_call'.via = "submit"
             /\ Top'.type = last_call'.type /\ Top'.arg = last_call'.arg
         ]_vars
    /\ [][last' = "submit_return" => ret' = ret]_vars
    /\ [](Running("submit", "return") => Len(s_queue) = 0)

\* C4: begin_render moves Idle to Rendering with ESP_OK; while Rendering it
\* fails with ESP_ERR_INVALID_STATE and changes neither the state nor the
\* queue; at most one render is in progress at any time.
C4_BeginRender ==
    /\ [][last' \in {"begin_render", "render_refused"} =>
            IF s_rendering
            THEN ret' = ESP_ERR_INVALID_STATE /\ s_rendering' /\ s_queue' = s_queue
            ELSE s_rendering' /\ (program = "test" => ret' = ESP_OK)
         ]_vars
    /\ [](RenderDepth <= 1)

C4_Witness ==
    /\ last = "begin_render"
    /\ ret = ESP_ERR_INVALID_STATE
    /\ s_rendering
    /\ Len(s_queue) > 0

\* C5: the executor is entered only while Idle, and a screen render is in
\* progress exactly while the controller is Rendering, one at a time.
C5_NoExecutionWhileRendering ==
    /\ ExecutorEntered => ~s_rendering
    /\ last \in ExecuteSteps => ~last_call.rendering
    /\ program = "app" => (s_rendering <=> RenderDepth = 1)
    /\ RenderDepth <= 1

C5_Witness ==
    /\ program = "app"
    /\ last = "process_execute"
    /\ Len(stack) >= 5
    /\ Len(enq) >= 2

\* C6: a failed request does not end the drain: the drain never returns after
\* a failure while requests are still queued.
C6_FailureKeepsDraining ==
    ~(last = "process_break" /\ ret # ESP_OK /\ s_queue # <<>>)

\* C7: once the initial screen is pushed the navigation stack is never empty;
\* a pop on a one-frame stack fails and leaves the stack as it was.
C7_RootNeverPopped ==
    /\ [](s_loaded_schema => Len(s_nav_stack) >= 1)
    /\ [][(ExecutorEntered /\ Top.fn = "execute_request"
             /\ Top.type = YUI_NAV_REQUEST_POP /\ Len(s_nav_stack) = 1) =>
            /\ last' = "pop_refused"
            /\ ret' = ESP_ERR_INVALID_STATE
            /\ s_nav_stack' = s_nav_stack
         ]_vars

C7_Witness ==
    /\ last = "pop_refused"
    /\ Len(s_nav_stack) = 1
    /\ ret = ESP_ERR_INVALID_STATE

C9_ModalsClearedOnRender ==
    /\ [](Running("render_current", "build") => s_modal_stack = <<>>)
    /\ [](last = "build" => s_modal_stack = <<>>)
    /\ [][last' = "teardown" =>
            /\ modal_deleted' = Reverse(s_modal_stack)
            /\ s_modal_stack' = <<>>
         ]_vars

C9_Witness ==
    /\ last = "build"
    /\ Len(modal_deleted) = 2
    /\ modal_deleted[1] # modal_deleted[2]

SameSetCall(c, d) == c.op = "set" /\ d.op = "set" /\ c.key = d.key /\ c.value = d.value

\* number of callbacks the log holds for the watchers with this id and context
NotifiedCount(log, id, ctx) ==
    Cardinality({ n \in 1..Len(log) : log[n].id = id /\ log[n].ctx = ctx })

\* number of watchers with this id and context whose key filter is empty or the key
MatchingCount(watchers, key, id, ctx) ==
    Cardinality({ n \in 1..Len(watchers) :
                    /\ watchers[n].id = id /\ watchers[n].ctx = ctx
                    /\ (watchers[n].key = NULL \/ watchers[n].key = "" \/ watchers[n].key = key) })

RECURSIVE FirstError(_)
FirstError(results) ==
    IF results = <<>> THEN ESP_OK
    ELSE IF Head(results) # ESP_OK THEN Head(results)
    ELSE FirstError(Tail(results))

ActionListFrames == { n \in 1..Len(stack) : stack[n].fn = "action_list" }

Tags(seq) == [n \in 1..Len(seq) |-> <<seq[n].id, seq[n].ctx>>]

WatchesKey(watch, key) == watch.key = NULL \/ watch.key = "" \/ watch.key = key

(* C12: the watchers notified by one set are invoked in the order in which *)
(* they were registered, whatever watch and unwatch calls came before: the *)
(* callbacks of the last changing set are the matching watchers still      *)
(* registered, in registration order.                                      *)
C12_NotifiedInRegistrationOrder ==
    (state_call.op = "set" /\ state_call.err = ESP_OK /\ state_call.updated) =>
        Tags(notified)
          = Tags(SelectSeq(registered, LAMBDA w : WatchesKey(w, state_call.key)))

(* C14: seeding (yui_state_seed and yui_state_seed_from_yaml) notifies no  *)
(* watcher and overwrites no key that already has a value: every entry the *)
(* store held before the call is still there with its value, and the       *)
(* entries added are for keys that were absent.                            *)
C14_SeedKeepsValues ==
    [][state_call'.op \in {"seed", "seed_from_yaml"} =>
          /\ notified' = <<>>
          /\ s_watchers' = s_watchers
          /\ Len(s_entries') >= Len(s_entries)
          /\ \A n \in 1..Len(s_entries) : s_entries'[n] = s_entries[n]
          /\ \A n \in (Len(s_entries) + 1)..Len(s_entries') :
                yui_state_find_index(s_entries, s_entries'[n].key) = 0]_vars

\* number of records of the sequence equal to the record
Occurrences(seq, record) == Cardinality({ n \in 1..Len(seq) : seq[n] = record })

(* C15: every handle yui_state_watch returns is non-zero and differs from  *)
(* the handle of every watch still registered, so that yui_state_unwatch(h)*)
(* removes the one watch h was returned for and leaves every other watch   *)
(* registered.                                                             *)
C15_HandlesUnique ==
    /\ [](\A n \in 1..Len(s_watchers) :
            /\ s_watchers[n].id # 0
            /\ \A m \in 1..Len(s_watchers) : m # n => s_watchers[m].id # s_watchers[n].id)
    /\ [][state_call'.op = "unwatch" =>
            /\ \A n \in 1..Len(s_watchers) :
                  s_watchers[n].id # state_call'.handle =>
                      Occurrences(s_watchers', s_watchers[n])
                        = Occurrences(s_watchers, s_watchers[n])
            /\ \A n \in 1..Len(s_watchers') : s_watchers'[n].id # state_call'.handle
            /\ Len(s_watchers') >= Len(s_watchers) - 1]_vars

----
(* Scope lifetime *)

\* the references held on a scope: its container while it has not been
\* deleted, the widget runtimes bound to it and its child scopes
Holders(s) ==
    Cardinality({ o \in 1..Len(objs) : objs[o].live /\ objs[o].scope = s })
    + Cardinality({ ctx \in Contexts : runtimes[ctx].live /\ runtimes[ctx].scope = s })
    + Cardinality({ c \in 1..Len(scopes) : scopes[c].parent = s /\ scopes[c].destroyed = 0 })

\* C19: a scope is destroyed only with a reference count of zero, which is the
\* number of its holders (container, bound widget runtimes, child scopes); no
\* live runtime or child scope points to a destroyed scope; a scope without
\* holders has been destroyed, and no scope is destroyed twice.
C19_ScopeLifetime ==
    /\ \A s \in 1..Len(scopes) :
        /\ scopes[s].destroyed <= 1
        /\ scopes[s].ref_count = Holders(s)
        /\ (scopes[s].destroyed = 1) <=> (scopes[s].ref_count = 0)
        /\ (scopes[s].destroyed = 0 /\ scopes[s].parent # 0)
               => scopes[scopes[s].parent].destroyed = 0
    /\ \A ctx \in Contexts :
        (runtimes[ctx].live /\ runtimes[ctx].scope # 0)
            => scopes[runtimes[ctx].scope].destroyed = 0

\* a scope whose container and child scope are gone lives on for the widget
\* bound to it
C19_Witness ==
    \E s \in 1..Len(scopes), c \in 1..Len(scopes), ctx \in Contexts :
        /\ scopes[c].parent = s /\ scopes[c].destroyed = 1
        /\ scopes[s].destroyed = 0 /\ scopes[s].ref_count = 1
        /\ \A o \in 1..Len(objs) : objs[o].scope = s => ~objs[o].live
        /\ runtimes[ctx].live /\ runtimes[ctx].scope = s

----
(* Widget teardown *)

\* C17: no registered watch carries as its context a widget runtime that has
\* been destroyed (or was never created), whether or not its text was bound
\* completely; the scope reference it held is released once (C19_ScopeLifetime
\* counts the references).
C17_TeardownRemovesWatches ==
    \A ctx \in Contexts :
        ~runtimes[ctx].live =>
            \A i \in 1..Len(s_watchers) : s_watchers[i].ctx # ctx

----
(* The store under concurrent callers *)

\* the thread is between yui_state_lock and yui_state_unlock
InCriticalSection(t) ==
    \E n \in 1..Len(tstack[t]) :
        tstack[t][n].op = "set" /\ tstack[t][n].pc \in {"find", "commit"}

\* C16: whether or not yui_state_init was called, at most one thread is
\* between yui_state_lock and yui_state_unlock, and the entry table holds at
\* most one entry per key.
C16_OneLockSerialises ==
    /\ Cardinality({ t \in Threads : InCriticalSection(t) }) <= 1
    /\ \A i, j \in 1..Len(s_entries) :
            s_entries[i].key = s_entries[j].key => i = j

----
(* Callbacks and widget teardown *)

\* C18: no notification loop, on the UI thread or on another thread, invokes
\* the state callback of a widget runtime that has been destroyed and
\* unwatched.
C18_NoCallbackAfterDestroy == ~dangling

----
(* Callbacks that call the store *)

\* the thread waits in xSemaphoreTakeRecursive
Waiting(t) ==
    /\ tstack[t] # <<>>
    /\ TopCall(t).pc = "lock" \/ (TopCall(t).op = "cb" /\ TopCall(t).pc = "call"
                                  /\ TopCall(t).ctx \in Contexts)
    /\ ~CanTake(t)

\* the user_ctx of the notifications not yet delivered
PendingCtx(call) == [n \in 1..Len(call.notifications) |-> call.notifications[n].ctx]

----
(* Queue reset *)

ResetSteps == {"queue_reset", "queue_reset_dropped"}

\* C25: yui_nav_queue_reset leaves depth 0 and no render in progress without
\* invoking the executor, and the submit that follows it is executed at once
\* with the request submitted.
C25_ResetDropsPending ==
    /\ [][last' \in ResetSteps =>
            /\ s_queue' = <<>> /\ ~s_rendering'
            /\ calls' = calls /\ stack' = <<>>
         ]_vars
    /\ [][(last \in ResetSteps /\ last' \in SubmitSteps) =>
            /\ last' = "submit_execute"
            /\ s_call_count' = s_call_count + 1
            /\ Top'.type = last_call'.type /\ Top'.arg = last_call'.arg
         ]_vars
    /\ [](last \in ResetSteps => (s_queue = <<>> /\ ~s_rendering /\ enq = <<>>))

\* pending requests were discarded and none of them was executed
C25_Witness ==
    /\ last = "queue_reset_dropped"
    /\ s_call_count = 0
    /\ s_queue = <<>>

----
(* Queue depth guard *)

\* a configured maximum queue depth (Kconfig), greater than 0
CONFIG_YAMUI_NAV_QUEUE_MAX_DEPTH == 2

\* C26: with a maximum depth configured, a submit that has to be deferred
\* while the queue holds that many requests returns ESP_ERR_INVALID_SIZE,
\* leaves the queue as it is and invokes nothing.
C26_DepthGuard ==
    [][(/\ last' \in SubmitSteps
        /\ s_executor # "none"
        /\ queue_pending(s_rendering, Len(s_queue))
        /\ Len(s_queue) >= CONFIG_YAMUI_NAV_QUEUE_MAX_DEPTH) =>
            /\ ret' = ESP_ERR_INVALID_SIZE
            /\ s_queue' = s_queue
            /\ calls' = calls
      ]_vars

\* the expression context of a label at the root of the screen
RootCtx == ExpressionCtx(0, scopes, s_entries)

\* the symbols of a list
Symbols(list) == { list[n] : n \in 1..Len(list) }

\* C27: a ternary evaluates only the branch it takes: the resolver is not
\* called for a symbol that occurs only in the other branch, and the text of
\* the label is the value of the branch taken.
C27_TernaryTakenBranchOnly ==
    \A cond \in Conditions, branches \in Branches :
        LET label == runtimes["w1"]
            holds == yui_expr_as_bool(yui_expr_eval(cond, RootCtx).value)
            taken == IF holds THEN branches[1] ELSE branches[2]
            untaken == IF holds THEN branches[2] ELSE branches[1]
        IN (/\ label.live
            /\ label.text_template = TernaryText(cond, branches)
            /\ untaken \notin Symbols(yui_expr_collect_identifiers(cond).identifiers))
           => /\ untaken \notin Symbols(label.resolved)
              /\ label.text = yui_state_get(s_entries, taken, "")

\* C28: a ?? b does not evaluate b when a is neither null nor the empty
\* string: the resolver is not called for b and the text is the value of a.
C28_CoalesceShortCircuit ==
    \A branches \in Branches :
        LET label == runtimes["w1"]
            left == yui_state_get(s_entries, branches[1], "")
        IN (label.live /\ label.text_template = CoalesceText(branches) /\ left # "")
           => /\ branches[2] \notin Symbols(label.resolved)
              /\ label.text = left

\* the text a label made of these segments must show: the literals as they
\* are, nothing for a span that fails, the value of any other span
RECURSIVE Rendered(_, _)
Rendered(segments, resolver_ctx) ==
    IF segments = <<>> THEN ""
    ELSE LET segment == Head(segments)
             evaluated == yui_expr_eval_to_string(segment.text, resolver_ctx,
                                                  YUI_TEXT_BUFFER_MAX)
         IN (IF ~segment.span THEN segment.text
             ELSE IF segment.text \in FailingExprs \/ evaluated.err # ESP_OK THEN ""
             ELSE evaluated.out) \o Rendered(Tail(segments), resolver_ctx)

\* C29: a span whose expression fails (a syntax error, a division by zero)
\* is replaced by the empty string; the literals and the other spans of the
\* text are rendered all the same.
C29_FailingSpanRendersEmpty ==
    \A segments \in SpanSegments :
        (runtimes["w1"].live /\ runtimes["w1"].text_template = TextOf(segments))
        => runtimes["w1"].text = Rendered(segments, RootCtx)

\* a label whose first span divides by zero shows its literals and the
\* value of its second span
C29_Witness ==
    /\ runtimes["w1"].live
    /\ runtimes["w1"].text_template = "n={{1/0}}|{{a}}"
    /\ runtimes["w1"].text = "n=|1"

\* C21: with count seeded to "0", the button set(count, {{count}} + 1) and
\* the label {{count}}, three clicks call the label's refresh callback three
\* times and leave the label showing "3".
C21_ThreeClicksCountThree ==
    LET label == runtimes["w1"]
    IN (/\ label.live
        /\ label.text_template = "{{count}}"
        /\ label.first = "0"
        /\ label.sets = 0
        /\ label.clicks = 3)
       => /\ label.callbacks = 3
          /\ label.text = "3"

\* the watches a label holds on a key
WatchesOf(ctx, key) ==
    { n \in 1..Len(s_watchers) : s_watchers[n].ctx = ctx /\ s_watchers[n].key = key }

\* C23: a bound label holds exactly one watch for each distinct key its text
\* depends on, however many spans of the text name the key.
C23_OneWatchPerKey ==
    \A ctx \in Contexts :
        runtimes[ctx].live
        => \A key \in Symbols(watched_keys(scopes, runtimes[ctx].scope,
                                           runtimes[ctx].bindings)) :
                Cardinality(WatchesOf(ctx, key)) = 1

\* the identifiers of the expressions of every {{ }} span of a text
RECURSIVE SpanIdentifiers(_, _)
SpanIdentifiers(text, cursor) ==
    LET open == FindPair(text, cursor, "{{")
        close == IF open = 0 THEN 0 ELSE FindPair(text, open + 2, "}}")
    IN IF open = 0 \/ close = 0 THEN {}
       ELSE Symbols(yui_expr_collect_identifiers(SubSeq(text, open + 2, close - 1)).identifiers)
            \cup SpanIdentifiers(text, close + 2)

\* the keys whose value a step changes
ChangedKeys ==
    { key \in {"count", "a"} :
        yui_state_get(s_entries', key, "") # yui_state_get(s_entries, key, "") }

\* C24: when a set changes the key k, every live label whose text names k
\* inside a {{ }} expression, with no prop of that name in its scope chain,
\* is refreshed: when the set returns, the label shows its text evaluated
\* against the store as it is now.
C24_ChangeRefreshesLabels ==
    [][\A ctx \in Contexts, key \in ChangedKeys :
            (/\ runtimes[ctx].live
             /\ key \in SpanIdentifiers(runtimes[ctx].text_template, 1)
             /\ yui_scope_find_prop(scopes, runtimes[ctx].scope, key) = <<>>)
            => /\ runtimes'[ctx].callbacks > runtimes[ctx].callbacks
               /\ runtimes'[ctx].text =
                    yui_format_text(runtimes[ctx].text_template,
                                    ExpressionCtx(runtimes[ctx].scope, scopes', s_entries'),
                                    YUI_TEXT_BUFFER_MAX).out]_vars

\* the store without a key
WithoutKey(entries, key) == SelectSeq(entries, LAMBDA entry : entry.key # key)

\* what a label with the text {{name}} shows against a store
ShownFor(label, entries) ==
    yui_format_text(label.text_template, ExpressionCtx(label.scope, scopes, entries),
                    YUI_TEXT_BUFFER_MAX).out

\* C22: inside component instances a name that a prop of the scope chain
\* declares resolves to the prop, whatever the store holds under that name: a
\* prop given a literal shows the literal, and the text does not depend on
\* the store's key of that name. A name no prop of the chain declares is
\* read from the store.
C22_PropShadowsState ==
    \A name \in {"a", "p", "count"} :
        LET label == runtimes["w1"]
            prop == yui_scope_find_prop(scopes, label.scope, name)
        IN (label.live /\ label.scope # 0 /\ label.text_template = "{{" \o name \o "}}")
           => IF prop = <<>>
              THEN label.text = yui_state_get(s_entries, name, "")
              ELSE /\ label.text = ShownFor(label, WithoutKey(s_entries, name))
                   /\ FindPair(prop[1].template_value, 1, "{{") = 0
                      => label.text = prop[1].template_value

\* a label inside an instance whose prop a is a literal shows the literal
\* while the store holds another value under a
C22_Witness ==
    /\ runtimes["w1"].live
    /\ runtimes["w1"].scope # 0
    /\ runtimes["w1"].text_template = "{{a}}"
    /\ yui_scope_find_prop(scopes, runtimes["w1"].scope, "a") # <<>>
    /\ yui_state_get(s_entries, "a", "") = "1"
    /\ runtimes["w1"].text = "lit"

\* C30: a load that fails applies nothing of the document: the schema that
\* was loaded stays loaded and the store holds the keys and values it held
\* before the load.
C30_FailedLoadAppliesNothing ==
    [][(last' = "schema_load" /\ ret' = NULL)
       => /\ s_entries' = s_entries
          /\ schema' = schema
          /\ s_loaded_schema' = s_loaded_schema]_vars

\* the open blocks one of whose children is at an indentation
Matching(nodes, blocks, indent) ==
    { blocks[b].node : b \in { b \in 1..Len(blocks) :
          \E n \in 1..Len(nodes) :
              nodes[n].parent = blocks[b].node /\ nodes[n].indent = indent } }

\* C31: a line less indented than the line before it is attached to the open
\* block whose children have its indentation; when no open block has children
\* at that indentation yaml_core_parse_buffer fails with a syntax error and
\* returns no tree.
C31_DedentMatchesAncestor ==
    [][(/\ ~yaml.done
        /\ yaml.cursor <= Len(yaml.data)
        /\ yml_next_line(yaml.data[yaml.cursor]).kind = "line"
        /\ yml_next_line(yaml.data[yaml.cursor]).indent
              < yaml.nodes[Len(yaml.nodes)].indent)
       => IF Matching(yaml.nodes, yaml.stack,
                      yml_next_line(yaml.data[yaml.cursor]).indent) # {}
          THEN \/ yaml'.done
               \/ yaml'.nodes[Len(yaml.nodes) + 1].parent
                      \in Matching(yaml.nodes, yaml.stack,
                                   yml_next_line(yaml.data[yaml.cursor]).indent)
          ELSE /\ yaml'.done
               /\ yaml'.err = ESP_ERR_INVALID_RESPONSE
               /\ ~yaml'.out_root]_vars

\* the type, the key and the parent of every node, in the order of the tree
Structure(nodes) ==
    [n \in 1..Len(nodes) |-> <<nodes[n].type, nodes[n].key, nodes[n].parent>>]

\* C32: the tree of a buffer that parses, written back as text and parsed
\* again, gives a tree with the same type, key and child order at every node.
C32_RoundTripNesting ==
    (yaml.done /\ yaml.round = 2)
        => /\ yaml.out_root
           /\ Structure(yaml.nodes) = Structure(yaml.first)

\* a tree with a sequence under a key that was indented by four columns has
\* been written back and parsed again
C32_Witness ==
    /\ yaml.done /\ yaml.round = 2 /\ yaml.out_root
    /\ Structure(yaml.nodes) = Structure(yaml.first)
    /\ \E n \in 1..Len(yaml.first) :
          /\ yaml.first[n].indent = 4
          /\ yaml.first[yaml.first[n].parent].type = "SEQUENCE"
          /\ yaml.first[yaml.first[n].parent].indent = 0

\* C33: a store operation on a malformed key (NULL or empty) is a no-op and
\* not a failure: yui_state_set reports success, leaves the entries and the
\* watchers as they were and invokes no callback, and yui_state_get of that
\* key returns the caller's default.
C33_MalformedKeyNoOp ==
    [][(state_call'.op = "set" /\ state_call'.key \in {NULL, ""}) =>
          /\ state_call'.err = ESP_OK
          /\ s_entries' = s_entries
          /\ s_watchers' = s_watchers
          /\ notified' = <<>>
          /\ yui_state_get(s_entries', state_call'.key, "fallback") = "fallback"
      ]_vars

\* the keys the store holds
StoredKeys(entries) == { entries[n].key : n \in 1..Len(entries) }

C40_EndRenderFalseKeepsQueue ==
    /\ [][last' = "end_render_false" =>
            /\ ~s_rendering'
            /\ s_queue' = s_queue
            /\ s_call_count' = s_call_count
            /\ last_call' = last_call
            /\ deq' = deq
            /\ Len(stack') <= Len(stack)
            /\ \A n \in 1..Len(stack') : stack'[n].fn = stack[n].fn
         ]_vars
    /\ [][(last' \in {"end_render_false", "end_render_true"} /\ ~s_rendering) =>
            /\ ~s_rendering'
            /\ s_queue' = s_queue
            /\ s_call_count' = s_call_count
            /\ last_call' = last_call
            /\ deq' = deq
            /\ Len(stack') <= Len(stack)
            /\ \A n \in 1..Len(stack') : stack'[n].fn = stack[n].fn
         ]_vars

\* end_render(false) has returned with two deferred requests left in the queue
C40_Witness ==
    /\ last = "end_render_false"
    /\ ~s_rendering
    /\ stack = <<>>
    /\ Len(s_queue) = 2
    /\ deq = <<>>

\* C37: a goto or push to a screen the schema does not define fails with
\* ESP_ERR_NOT_FOUND and is not applied: when the render of the requested
\* screen has been refused the navigation stack is as deep as before and holds
\* the frames it held, so it has no frame of an undefined screen and its top
\* is the screen a later pop or render works on.
C37_MissingScreenNotApplied ==
    last = "render_not_found" =>
        /\ ret = ESP_ERR_NOT_FOUND
        /\ \A n \in 1..Len(s_nav_stack) : yui_schema_resolve_screen(s_nav_stack[n]) # NULL

\* C35: an action list is never freed while yui_action_list_execute iterates
\* over it: no frame of yui_action_list_execute on the call stack reads a
\* list whose memory has been released, also when one of its actions has
\* re-rendered the screen and deleted the widget that owns the list.
C35_ListNotFreedWhileRunning ==
    \A n \in ActionListFrames : ~stack[n].freed

----
(* The navigation queue with calls that run to completion *)

\* a step of a call that has been entered and has not returned: the code is
\* synchronous, so the UI task goes on executing it
CallStep == stack # <<>> /\ Next

SpecFair == Init /\ [][Next]_vars /\ WF_vars(CallStep)

\* the controller is Idle, nothing is executing, and requests are queued
Stranded == stack = <<>> /\ ~s_rendering /\ s_queue # <<>>

\* C36: every request accepted into the queue is eventually executed or
\* discarded: the controller does not stay at rest Idle with requests in the
\* queue.  Whenever it is at rest Idle with a non-empty queue, the queue is
\* drained or reset later without the help of a further render.
C36_QueueEventuallyDrained ==
    Stranded ~> (s_queue = <<>> \/ s_rendering \/ s_call_count >= MaxCalls)

\* the frames of yui_navigation_render_current that have begun a render
RenderFrames ==
    { n \in 1..Len(stack) : stack[n].fn = "render_current" /\ stack[n].at # <<>> }

\* C38: every call of submit and of end_render terminates for every schema,
\* on_load handlers that navigate to each other or to themselves included:
\* the drain never re-enters the render of a screen inside a render of the
\* same screen that was entered with the same navigation stack and the same
\* queue, from where the same steps would repeat without end.
C38_NavigationTerminates ==
    \A n, m \in RenderFrames :
        (n < m /\ stack[n].arg = stack[m].arg) => stack[n].at # stack[m].at

\* C39: the value a watcher callback is passed is the value committed by the
\* set that notifies it, and the value yui_state_get returned to the callback
\* is the value stored for the key; both stay valid while the callback uses
\* them: the stored string they point to is not replaced by a set of the same
\* key on another thread before the callback has returned.
C39_ValuesStayValid ==
    \A t \in Threads :
        \A n \in 1..Len(tstack[t]) :
            LET call == tstack[t][n]
            IN call.op = "cb" =>
                 /\ ~tstack[t][n + 1].overwritten
                 /\ call.value = tstack[t][n + 1].value
                 /\ (call.pc = "return" /\ call.read # NULL) =>
                        call.read = yui_state_get(s_entries, call.key, "")

====
